---- MODULE Spec2Model ----
(***************************************************************************)
(* A model of the moving_gc_arena Region (src/src/lib.rs): the backing     *)
(* store of Spots, the root set, the anchor cells behind Root and Weak,    *)
(* the allocation handle MutEntry, and the Cheney collector prim_gc_to     *)
(* with its callers gc, ensure, alloc and gc_into, and the lookups of Ix.   *)
(* The two Spot and Entry implementations of src/src/entry/ are modelled   *)
(* side by side, under the same calls.                                     *)
(*                                                                         *)
(* Offsets are 0-based as in the code; a Vec is a sequence, so the spot at *)
(* offset n of a store d is d[n + 1].  A user value T is the record        *)
(* [id, edges]: id stands for its content (every allocation gets a fresh   *)
(* one), edges are its Option<Ix<T>> fields, which foreach_ix yields in    *)
(* order.                                                                  *)
(***************************************************************************)
EXTENDS Integers, Sequences, FiniteSets, TLC

\* ------------------------------------------------------------- bounds
MaxAllocs == 2
\* the most objects the store a collection starts from holds
MaxObjs == 3
MaxShares == 2
MaxIncarn == 2
MaxEnsure == 2
MaxGen == 2
NumFields == 1
\* usize::MAX, scaled down
UsizeMax == 7

Regions == {1, 2}
Ids == 1..MaxObjs

VARIABLES
    debug,      \* the build has the debug-arena feature
    region,     \* region[r]: alive, data, cap, roots, nonce, generation
    wcell,      \* wcell[id]: the anchor Entry.rc of the object id and its Weaks
    rcell,      \* rcell[id]: the anchor made by MutEntry::root and its Roots
    me,         \* the MutEntry the user holds, or NoMe
    phase,      \* where the running operation stands
    gc,         \* the locals of the running prim_gc_to, or NoGc
    nextId,     \* the next content to be allocated
    drops,      \* drops[id]: how often the value id has been dropped
    op,         \* the Region operation that is running, or NoOp
    pre,        \* the source store and live Roots as the last collection found them
    ensured,    \* ensured[r]: how many of the allocations that directly followed
                \* the last ensure(k) on r are still to come, out of k
    moved,      \* the objects a gc_into has brought into the Region they are in
    got,        \* the last lookup the user made and what it returned, or NoGot
    twice,      \* the user's foreach_ix yields its first field a second time
    ent         \* an entry with the safe header and one with the packed header,
                \* taken through the same calls, or NoEnt

vars == <<debug, region, wcell, rcell, me, phase, gc, nextId, drops, op, pre, ensured,
         moved, got, twice, ent>>

\* ------------------------------------------------------------- Ix
Max(a, b) == IF a >= b THEN a ELSE b

\* Ix::new: without debug-arena an Ix has no nonce and no generation
IxNew(n, stamp) ==
    [ix |-> n,
     nonce |-> IF debug THEN stamp[1] ELSE 0,
     generation |-> IF debug THEN stamp[2] ELSE 0]

\* Option<Ix<T>>::None
NoneIx == [ix |-> -1, nonce |-> 0, generation |-> 0]

RegionStamp(r) == <<region[r].nonce, region[r].generation>>

\* ------------------------------------------------------------- Spot
Present(id, edges) ==
    [tag |-> "Present", id |-> id, edges |-> edges, fwd |-> NoneIx]

BrokenHeart(ix) ==
    [tag |-> "BrokenHeart", id |-> 0, edges |-> <<>>, fwd |-> ix]

InRange(d, n) == n >= 0 /\ n < Len(d)

At(d, n) == d[n + 1]

Fields == 1..NumFields

\* Elem::new: every field None
NoEdges == [f \in Fields |-> NoneIx]

\* ------------------------------------------------------------- anchors
NoWCell == [held |-> FALSE, ix |-> NoneIx, weaks |-> 0]
NoRCell == [inc |-> 0, ix |-> NoneIx, roots |-> 0]

\* a faulty variant: the root set treats an anchor with one share as dead
RootEntryAliveOffByOne(e) == rcell[e.id].inc = e.inc /\ rcell[e.id].roots > 1

\* rc::Weak::upgrade on an entry of the root set
RootEntryAlive(e) == rcell[e.id].inc = e.inc /\ rcell[e.id].roots > 0

\* Root::ix
RootIx(id) == rcell[id].ix

\* Weak::ix
WeakIx(id) == IF wcell[id].held THEN wcell[id].ix ELSE NoneIx

\* Ix::check_region
CheckRegion(ix, r) ==
    IF ~debug THEN "Ok"
    ELSE IF ix.nonce # region[r].nonce THEN "IncorrectRegion"
    ELSE IF ix.generation < region[r].generation THEN "EntryExpired"
    ELSE IF ix.generation > region[r].generation THEN "Indeterminable"
    ELSE "Ok"

\* a faulty variant: try_get reports a BrokenHeart as an expired entry
IxTryGetBrokenHeartExpired(ix, r) ==
    LET c == CheckRegion(ix, r) IN
    IF c # "Ok" THEN [ok |-> FALSE, err |-> c, id |-> 0, edges |-> <<>>]
    ELSE IF ~InRange(region[r].data, ix.ix)
         THEN [ok |-> FALSE, err |-> "Indeterminable", id |-> 0, edges |-> <<>>]
    ELSE IF At(region[r].data, ix.ix).tag = "Present"
         THEN [ok |-> TRUE, err |-> "",
               id |-> At(region[r].data, ix.ix).id,
               edges |-> At(region[r].data, ix.ix).edges]
         ELSE [ok |-> FALSE, err |-> "EntryExpired", id |-> 0, edges |-> <<>>]

\* Ix::try_get and Ix::try_get_mut
IxTryGet(ix, r) ==
    LET c == CheckRegion(ix, r) IN
    IF c # "Ok" THEN [ok |-> FALSE, err |-> c, id |-> 0, edges |-> <<>>]
    ELSE IF InRange(region[r].data, ix.ix)
              /\ At(region[r].data, ix.ix).tag = "Present"
         THEN [ok |-> TRUE, err |-> "",
               id |-> At(region[r].data, ix.ix).id,
               edges |-> At(region[r].data, ix.ix).edges]
         ELSE [ok |-> FALSE, err |-> "Indeterminable", id |-> 0, edges |-> <<>>]

\* Root::try_get
RootTryGet(id, r) == IxTryGet(RootIx(id), r)

\* a faulty variant: Weak::try_get takes the failed upgrade for a lookup failure
WeakTryGetIndeterminable(id, r) ==
    IF WeakIx(id) # NoneIx THEN IxTryGet(WeakIx(id), r)
    ELSE [ok |-> FALSE, err |-> "Indeterminable", id |-> 0, edges |-> <<>>]

\* Weak::try_get
WeakTryGet(id, r) ==
    IF WeakIx(id) # NoneIx THEN IxTryGet(WeakIx(id), r)
    ELSE [ok |-> FALSE, err |-> "EntryExpired", id |-> 0, edges |-> <<>>]

\* ------------------------------------------------------------- Entry
\* Entry::check_clear_rc
EntryCheckClearRc(c) ==
    IF c.held /\ c.weaks = 0 THEN [c EXCEPT !.held = FALSE, !.ix = NoneIx] ELSE c

\* a faulty variant: Entry::move_to leaves the anchor as it was
EntryMoveToNoSet(c, other) == c

\* Entry::move_to
EntryMoveTo(c, other) ==
    IF c.held THEN [c EXCEPT !.ix = other] ELSE c

NoMe == [r |-> 0, ix |-> NoneIx]
NoGc == [kind |-> "", src |-> 0, dst |-> <<>>, cap |-> 0, objIndex |-> 0,
         oldGen |-> <<0, 0>>, newGen |-> <<0, 0>>, scanned |-> 0]
NoCredit == [q \in Regions |-> 0]
NoOp == [name |-> "", r |-> 0, into |-> 0, additional |-> 0]
\* no entry is under comparison
NoEnt == [on |-> FALSE]

NoGot == [fn |-> "", ix |-> NoneIx, r |-> 0, res |-> "", id |-> 0]

NoPre == [op |-> "", additional |-> 0, src |-> 0, into |-> 0, data |-> <<>>,
          rootIds |-> {}, base |-> 0, after |-> "", stamp |-> <<0, 0>>]

NewRegion(n) ==
    [alive |-> TRUE, data |-> <<>>, cap |-> 0, roots |-> <<>>,
     nonce |-> IF debug THEN n ELSE 0, generation |-> 0]

Init ==
    /\ debug \in BOOLEAN
    /\ region = [r \in Regions |->
                    IF r = 1 THEN NewRegion(0)
                    ELSE [NewRegion(0) EXCEPT !.alive = FALSE]]
    /\ wcell = [i \in Ids |-> NoWCell]
    /\ rcell = [i \in Ids |-> NoRCell]
    /\ me = NoMe
    /\ phase = "idle"
    /\ gc = NoGc
    /\ nextId = 1
    /\ drops = [i \in Ids |-> 0]
    /\ op = NoOp
    /\ pre = NoPre
    /\ ensured = NoCredit
    /\ moved = {}
    /\ got = NoGot
    /\ twice = FALSE
    /\ ent = NoEnt

\* ------------------------------------------------------------- prim_gc_to
\* a faulty variant: the capacity reserved is one spot short
ReserveOneShort(cap, len, additional) == len + additional - 1

\* Vec::reserve: the capacity after dst.reserve(additional)
Reserve(cap, len, additional) ==
    IF cap - len >= additional THEN cap ELSE Max(2 * cap, len + additional)

\* a faulty variant: check_gen lets every Index through
CheckGenLetsThrough(ix, oldGen, newGen) == "Ok"

\* check_gen (debug-arena only)
CheckGen(ix, oldGen, newGen) ==
    IF ~debug THEN "Ok"
    ELSE IF ix.nonce # oldGen[1]
         THEN IF ix.nonce = newGen[1] THEN "ProcessedTwice" ELSE "InvalidSource"
    ELSE IF ix.generation < oldGen[2] THEN "TooOld"
    ELSE IF ix.generation > oldGen[2] THEN "TooNew"
    ELSE "Ok"

\* a faulty variant: push_spot copies the spot and leaves the original in the source
PushSpotKeepsSource(len, p, src, w, newGen) ==
    LET new_index == IxNew(len, newGen)
        s == At(src, p)
    IN [src |-> src,
        w |-> IF s.tag = "Present"
              THEN [w EXCEPT ![s.id] = EntryMoveTo(EntryCheckClearRc(@), new_index)]
              ELSE w,
        obj |-> s,
        ix |-> new_index]

\* a faulty variant: push_spot hands out the offset the spot had in the source
PushSpotOldOffset(len, p, src, w, newGen) ==
    LET new_index == IxNew(p, newGen)
        s == At(src, p)
    IN [src |-> [src EXCEPT ![p + 1] = BrokenHeart(new_index)],
        w |-> IF s.tag = "Present"
              THEN [w EXCEPT ![s.id] = EntryMoveTo(EntryCheckClearRc(@), new_index)]
              ELSE w,
        obj |-> s,
        ix |-> new_index]

\* a faulty variant: push_spot moves the Entry without check_clear_rc
PushSpotKeepsAnchor(len, p, src, w, newGen) ==
    LET new_index == IxNew(len, newGen)
        s == At(src, p)
    IN [src |-> [src EXCEPT ![p + 1] = BrokenHeart(new_index)],
        w |-> IF s.tag = "Present"
              THEN [w EXCEPT ![s.id] = EntryMoveTo(@, new_index)]
              ELSE w,
        obj |-> s,
        ix |-> new_index]

\* push_spot: the spot at offset p of src is replaced by a BrokenHeart to
\* the new index; its old contents are what is written at dst + len
PushSpot(len, p, src, w, newGen) ==
    LET new_index == IxNew(len, newGen)
        s == At(src, p)
    IN [src |-> [src EXCEPT ![p + 1] = BrokenHeart(new_index)],
        w |-> IF s.tag = "Present"
              THEN [w EXCEPT ![s.id] = EntryMoveTo(EntryCheckClearRc(@), new_index)]
              ELSE w,
        obj |-> s,
        ix |-> new_index]

\* a faulty variant: the scan leaves a field that points at a BrokenHeart as it was
ForwardedKeepsOld(pointed, spot) == pointed

\* the scan closure on an edge to a moved object:
\* "Spot::BrokenHeart(new_index) => *pointed = new_index"
Forwarded(pointed, spot) == spot.fwd

\* take_valid_roots, and the same filter in ensure
TakeValidRoots(roots) == SelectSeq(roots, RootEntryAlive)

\* a faulty variant: the scan passes over an Index that is out of range
InvalidIndexIgnored(acc) == acc

\* the scan closure on an Index that src.get_mut has nothing for:
\* "None => panic!("Invalid index {} found from HasIx<T> at {} during GC.")"
InvalidIndex(acc) == [acc EXCEPT !.status = "panicked"]

\* the user's foreach_ix: the fields it hands to the closure, in order; one
\* that is written wrongly hands out its first field once more at the end
Yields(edges) ==
    IF twice /\ Len(edges) > 0
    THEN [k \in 1..(Len(edges) + 1) |-> IF k <= Len(edges) THEN k ELSE 1]
    ELSE [k \in 1..Len(edges) |-> k]

\* the closure handed to foreach_ix, applied to the yields k.. of the object
\* under the cursor; len is dst.len() at the start of the scan step
RECURSIVE ScanFields(_, _, _)
ScanFields(k, len, acc) ==
    IF k > Len(Yields(acc.edges)) \/ acc.status # "ok" THEN acc
    ELSE LET f == Yields(acc.edges)[k]
             pointed == acc.edges[f] IN
         IF pointed = NoneIx THEN ScanFields(k + 1, len, acc)
         ELSE IF CheckGen(pointed, gc.oldGen, gc.newGen) # "Ok"
              THEN [acc EXCEPT !.status = "panicked"]
         ELSE IF ~InRange(acc.src, pointed.ix)
              THEN InvalidIndex(acc)
         ELSE IF At(acc.src, pointed.ix).tag = "Present"
              THEN IF len + Len(acc.out) >= gc.cap
                   THEN [acc EXCEPT !.status = "ub"]
                   ELSE LET p == PushSpot(len + Len(acc.out), pointed.ix,
                                          acc.src, acc.w, gc.newGen)
                        IN ScanFields(k + 1, len,
                              [src |-> p.src, w |-> p.w,
                               edges |-> [acc.edges EXCEPT ![f] = p.ix],
                               out |-> Append(acc.out, p.obj),
                               status |-> "ok"])
         ELSE ScanFields(k + 1, len,
                  [acc EXCEPT !.edges[f] =
                                  Forwarded(pointed, At(acc.src, pointed.ix))])

\* the values a store drops with it: Present spots drop their value and
\* their share of the anchor, BrokenHearts drop nothing
PresentIds(d) == {d[n].id : n \in {m \in 1..Len(d) : d[m].tag = "Present"}}

DropStoreCount(d, id) == Cardinality({m \in 1..Len(d) : d[m].tag = "Present" /\ d[m].id = id})

\* a faulty variant: the store a collection replaces is forgotten, not dropped
DropStoreDropsForgets(d, dr) == dr

DropStoreDrops(d, dr) == [i \in Ids |-> dr[i] + DropStoreCount(d, i)]

\* a faulty variant: dropping the old store does not release the anchors of its
\* entries
DropStoreCellsLeaks(d, w) == w

DropStoreCells(d, w) ==
    [i \in Ids |-> IF i \in PresentIds(d)
                   THEN [w[i] EXCEPT !.held = FALSE, !.ix = NoneIx]
                   ELSE w[i]]

\* the offsets of store d reachable from the offsets seen through the fields
RECURSIVE ReachFrom(_, _)
ReachFrom(d, seen) ==
    LET next == seen \cup
            (UNION {{At(d, n).edges[f].ix : f \in DOMAIN At(d, n).edges} : n \in seen}
                \ {-1})
        ok == {n \in next : InRange(d, n) /\ At(d, n).tag = "Present"}
    IN IF ok = seen THEN seen ELSE ReachFrom(d, ok)

\* the Roots the user holds on objects of store d
LiveRootIds(d) == {i \in PresentIds(d) : rcell[i].roots > 0}

\* a faulty variant: root forwarding copies the object and does not set the anchor
ForwardOneRootNoSet(root, acc, cap, oldGen, newGen) ==
    LET ix == acc.r[root.id].ix IN
    IF acc.status # "ok" THEN acc
    ELSE IF ~RootEntryAlive(root) THEN acc
    ELSE IF CheckGen(ix, oldGen, newGen) # "Ok"
         THEN [acc EXCEPT !.status = "panicked"]
    ELSE IF ~InRange(acc.src, ix.ix) THEN acc
    ELSE IF Len(acc.dst) >= cap THEN [acc EXCEPT !.status = "ub"]
    ELSE LET p == PushSpot(Len(acc.dst), ix.ix, acc.src, acc.w, newGen)
         IN [status |-> "ok", src |-> p.src, w |-> p.w,
             r |-> acc.r,
             dst |-> Append(acc.dst, p.obj),
             keep |-> Append(acc.keep, root)]

\* a faulty variant: the root loop copies the object and leaves the original
ForwardOneRootCopies(root, acc, cap, oldGen, newGen) ==
    LET ix == acc.r[root.id].ix IN
    IF acc.status # "ok" THEN acc
    ELSE IF ~RootEntryAlive(root) THEN acc
    ELSE IF CheckGen(ix, oldGen, newGen) # "Ok"
         THEN [acc EXCEPT !.status = "panicked"]
    ELSE IF ~InRange(acc.src, ix.ix) THEN acc
    ELSE IF Len(acc.dst) >= cap THEN [acc EXCEPT !.status = "ub"]
    ELSE LET p == PushSpot(Len(acc.dst), ix.ix, acc.src, acc.w, newGen)
         IN [status |-> "ok", src |-> acc.src, w |-> p.w,
             r |-> [acc.r EXCEPT ![root.id].ix = p.ix],
             dst |-> Append(acc.dst, p.obj),
             keep |-> Append(acc.keep, root)]

\* a faulty variant: the root loop keeps the entries whose anchor is gone
ForwardOneRootKeepsDead(root, acc, cap, oldGen, newGen) ==
    LET ix == acc.r[root.id].ix IN
    IF acc.status # "ok" THEN acc
    ELSE IF ~RootEntryAlive(root) THEN [acc EXCEPT !.keep = Append(@, root)]
    ELSE IF CheckGen(ix, oldGen, newGen) # "Ok"
         THEN [acc EXCEPT !.status = "panicked"]
    ELSE IF ~InRange(acc.src, ix.ix) THEN acc
    ELSE IF Len(acc.dst) >= cap THEN [acc EXCEPT !.status = "ub"]
    ELSE LET p == PushSpot(Len(acc.dst), ix.ix, acc.src, acc.w, newGen)
         IN [status |-> "ok", src |-> p.src, w |-> p.w,
             r |-> [acc.r EXCEPT ![root.id].ix = p.ix],
             dst |-> Append(acc.dst, p.obj),
             keep |-> Append(acc.keep, root)]

\* the body of the filter_map over the drained root set, for one entry;
\* acc holds the source store, the anchors, the destination and the roots kept
ForwardOneRoot(root, acc, cap, oldGen, newGen) ==
    LET ix == acc.r[root.id].ix IN
    IF acc.status # "ok" THEN acc
    ELSE IF ~RootEntryAlive(root) THEN acc
    ELSE IF CheckGen(ix, oldGen, newGen) # "Ok"
         THEN [acc EXCEPT !.status = "panicked"]
    ELSE IF ~InRange(acc.src, ix.ix) THEN acc
    ELSE IF Len(acc.dst) >= cap THEN [acc EXCEPT !.status = "ub"]
    ELSE LET p == PushSpot(Len(acc.dst), ix.ix, acc.src, acc.w, newGen)
         IN [status |-> "ok", src |-> p.src, w |-> p.w,
             r |-> [acc.r EXCEPT ![root.id].ix = p.ix],
             dst |-> Append(acc.dst, p.obj),
             keep |-> Append(acc.keep, root)]

\* a faulty variant: the root loop takes the root set from its last entry
RECURSIVE ForwardRootsLastFirst(_, _, _, _, _)
ForwardRootsLastFirst(todo, acc, cap, oldGen, newGen) ==
    IF todo = <<>> THEN acc
    ELSE ForwardOneRoot(Head(todo),
                        ForwardRootsLastFirst(Tail(todo), acc, cap, oldGen, newGen),
                        cap, oldGen, newGen)

\* prim_gc_to: "Push each root onto the destination, updating roots"
RECURSIVE ForwardRoots(_, _, _, _, _)
ForwardRoots(todo, acc, cap, oldGen, newGen) ==
    IF todo = <<>> THEN acc
    ELSE ForwardRoots(Tail(todo),
                      ForwardOneRoot(Head(todo), acc, cap, oldGen, newGen),
                      cap, oldGen, newGen)

\* a faulty variant: the scan loop starts behind the roots' objects
StartGcSkipsRoots(kind, s, into, dst0, cap0, newGen) ==
    LET src == region[s].data
        cap1 == Reserve(cap0, Len(dst0), Len(src))
        acc == ForwardRoots(region[s].roots,
                            [status |-> "ok", src |-> src, w |-> wcell,
                             r |-> rcell, dst |-> dst0, keep |-> <<>>],
                            cap1, RegionStamp(s), newGen)
    IN /\ gc' = [kind |-> kind, src |-> s, dst |-> acc.dst, cap |-> cap1,
                 objIndex |-> Len(acc.dst), oldGen |-> RegionStamp(s),
                 newGen |-> newGen, scanned |-> 0]
       /\ region' = [region EXCEPT ![s].data = acc.src,
                                   ![s].roots = IF acc.status = "ok"
                                                THEN acc.keep ELSE <<>>]
       /\ wcell' = acc.w
       /\ rcell' = acc.r
       /\ phase' = IF acc.status = "ok" THEN "scan" ELSE acc.status
       /\ pre' = [op |-> op'.name, additional |-> op'.additional, src |-> s,
                  into |-> into, data |-> src, rootIds |-> LiveRootIds(src),
                  base |-> Len(dst0),
                  after |-> IF phase = "idle" /\ pre.into = s THEN pre.op
                            ELSE "",
                  stamp |-> RegionStamp(s)]

\* prim_gc_to(src = region s, dst, roots = region s's) up to the scan loop
StartGc(kind, s, into, dst0, cap0, newGen) ==
    LET src == region[s].data
        cap1 == Reserve(cap0, Len(dst0), Len(src))
        acc == ForwardRoots(region[s].roots,
                            [status |-> "ok", src |-> src, w |-> wcell,
                             r |-> rcell, dst |-> dst0, keep |-> <<>>],
                            cap1, RegionStamp(s), newGen)
    IN /\ gc' = [kind |-> kind, src |-> s, dst |-> acc.dst, cap |-> cap1,
                 objIndex |-> Len(dst0), oldGen |-> RegionStamp(s),
                 newGen |-> newGen, scanned |-> 0]
       /\ region' = [region EXCEPT ![s].data = acc.src,
                                   ![s].roots = IF acc.status = "ok"
                                                THEN acc.keep ELSE <<>>]
       /\ wcell' = acc.w
       /\ rcell' = acc.r
       /\ phase' = IF acc.status = "ok" THEN "scan" ELSE acc.status
       /\ pre' = [op |-> op'.name, additional |-> op'.additional, src |-> s,
                  into |-> into, data |-> src, rootIds |-> LiveRootIds(src),
                  base |-> Len(dst0),
                  after |-> IF phase = "idle" /\ pre.into = s THEN pre.op
                            ELSE "",
                  stamp |-> RegionStamp(s)]

\* a faulty variant: the scan loop does not advance its cursor
ScanStepNoAdvance ==
    /\ phase = "scan"
    /\ gc.objIndex < Len(gc.dst)
    /\ LET s == gc.src
           len == Len(gc.dst)
           spot == At(gc.dst, gc.objIndex)
       IN IF spot.tag # "Present"
          THEN /\ phase' = "panicked"
               /\ UNCHANGED <<gc, region, wcell>>
          ELSE LET acc == ScanFields(1, len,
                              [src |-> region[s].data, w |-> wcell,
                               edges |-> spot.edges, out |-> <<>>,
                               status |-> "ok"])
                   dst1 == [gc.dst EXCEPT ![gc.objIndex + 1].edges = acc.edges]
                   g == [gc EXCEPT !.dst = dst1 \o acc.out, !.scanned = @ + 1]
               IN /\ gc' = g
                  /\ region' = [region EXCEPT ![s].data = acc.src]
                  /\ wcell' = acc.w
                  /\ phase' = IF acc.status # "ok" THEN acc.status ELSE "scan"
    /\ UNCHANGED <<debug, moved, got, twice, ent, rcell, me, nextId, drops, op, pre, ensured>>

\* prim_gc_to: one turn of "while obj_index < dst.len()"
ScanStep ==
    /\ phase = "scan"
    /\ gc.objIndex < Len(gc.dst)
    /\ LET s == gc.src
           len == Len(gc.dst)
           spot == At(gc.dst, gc.objIndex)
       IN IF spot.tag # "Present"
          THEN /\ phase' = "panicked"
               /\ UNCHANGED <<gc, region, wcell>>
          ELSE LET acc == ScanFields(1, len,
                              [src |-> region[s].data, w |-> wcell,
                               edges |-> spot.edges, out |-> <<>>,
                               status |-> "ok"])
                   dst1 == [gc.dst EXCEPT ![gc.objIndex + 1].edges = acc.edges]
                   g == IF acc.status = "ok"
                        THEN [gc EXCEPT !.dst = dst1 \o acc.out,
                                        !.objIndex = @ + 1,
                                        !.scanned = @ + 1]
                        ELSE [gc EXCEPT !.dst = dst1]
               IN /\ gc' = g
                  /\ region' = [region EXCEPT ![s].data = acc.src]
                  /\ wcell' = acc.w
                  /\ phase' = IF acc.status # "ok" THEN acc.status ELSE "scan"
    /\ UNCHANGED <<debug, moved, got, twice, ent, rcell, me, nextId, drops, op, pre, ensured>>

\* usize + usize where overflow is not checked
WrappingAdd(a, b) == (a + b) % (UsizeMax + 1)

\* Region::ensure: "if cap >= len + additional { return }"
EnsureCollects(r, additional) ==
    ~(region[r].cap >= WrappingAdd(Len(region[r].data), additional))

\* Vec::with_capacity(n) panics with "capacity overflow" when n spots are
\* more bytes than isize::MAX; at this scale only UsizeMax spots are
CapacityOverflow(n) == n >= UsizeMax

\* Region::ensure: the capacity of the destination
EnsureCapacity(len, additional) == len + Max(len, additional)

\* Region::gc: the capacity of the destination
GcCapacity(len) == len

\* the generation a collection of region r stamps
NextGen(r) == <<region[r].nonce, region[r].generation + 1>>

\* a faulty variant: a collection leaves the Region's generation as it was
GcFinishKeepsGeneration ==
    /\ phase = "scan"
    /\ ~(gc.objIndex < Len(gc.dst))
    /\ gc.kind \in {"gc", "ensure"}
    /\ LET s == gc.src
           old == region[s].data
       IN /\ region' = [region EXCEPT
                          ![s].roots = TakeValidRoots(@),
                          ![s].data = gc.dst,
                          ![s].cap = gc.cap]
          /\ drops' = DropStoreDrops(old, drops)
          /\ wcell' = DropStoreCells(old, wcell)
    /\ gc' = NoGc
    /\ phase' = IF op.name = "alloc" THEN "alloc_push"
                 ELSE IF op.name = "gc_into" THEN "into" ELSE "idle"
    /\ op' = IF op.name \in {"alloc", "gc_into"} THEN op ELSE NoOp
    /\ UNCHANGED <<debug, moved, got, twice, ent, rcell, me, nextId, pre, ensured>>

\* a faulty variant: gc forgets the root set instead of keeping its live entries
GcFinishLosesRoots ==
    /\ phase = "scan"
    /\ ~(gc.objIndex < Len(gc.dst))
    /\ gc.kind \in {"gc", "ensure"}
    /\ LET s == gc.src
           old == region[s].data
       IN /\ region' = [region EXCEPT
                          ![s].roots = <<>>,
                          ![s].data = gc.dst,
                          ![s].cap = gc.cap,
                          ![s].generation = IF debug THEN gc.newGen[2] ELSE @]
          /\ drops' = DropStoreDrops(old, drops)
          /\ wcell' = DropStoreCells(old, wcell)
    /\ gc' = NoGc
    /\ phase' = IF op.name = "alloc" THEN "alloc_push"
                 ELSE IF op.name = "gc_into" THEN "into" ELSE "idle"
    /\ op' = IF op.name \in {"alloc", "gc_into"} THEN op ELSE NoOp
    /\ UNCHANGED <<debug, moved, got, twice, ent, rcell, me, nextId, pre, ensured>>

\* a faulty variant: gc leaves the Region on the store it has just emptied
GcFinishKeepsStore ==
    /\ phase = "scan"
    /\ ~(gc.objIndex < Len(gc.dst))
    /\ gc.kind \in {"gc", "ensure"}
    /\ LET s == gc.src
           old == region[s].data
       IN /\ region' = [region EXCEPT
                          ![s].roots = TakeValidRoots(@),
                          ![s].generation = IF debug THEN gc.newGen[2] ELSE @]
          /\ drops' = DropStoreDrops(gc.dst, drops)
          /\ wcell' = DropStoreCells(gc.dst, wcell)
    /\ gc' = NoGc
    /\ phase' = IF op.name = "alloc" THEN "alloc_push"
                 ELSE IF op.name = "gc_into" THEN "into" ELSE "idle"
    /\ op' = IF op.name \in {"alloc", "gc_into"} THEN op ELSE NoOp
    /\ UNCHANGED <<debug, moved, got, twice, ent, rcell, me, nextId, pre, ensured>>

\* what gc and ensure do once prim_gc_to has returned
GcFinish ==
    /\ phase = "scan"
    /\ ~(gc.objIndex < Len(gc.dst))
    /\ gc.kind \in {"gc", "ensure"}
    /\ LET s == gc.src
           old == region[s].data
       IN /\ region' = [region EXCEPT
                          ![s].roots = TakeValidRoots(@),
                          ![s].data = gc.dst,
                          ![s].cap = gc.cap,
                          ![s].generation = IF debug THEN gc.newGen[2] ELSE @]
          /\ drops' = DropStoreDrops(old, drops)
          /\ wcell' = DropStoreCells(old, wcell)
    /\ gc' = NoGc
    /\ phase' = IF op.name = "alloc" THEN "alloc_push"
                 ELSE IF op.name = "gc_into" THEN "into" ELSE "idle"
    /\ op' = IF op.name \in {"alloc", "gc_into"} THEN op ELSE NoOp
    /\ UNCHANGED <<debug, moved, got, twice, ent, rcell, me, nextId, pre, ensured>>

Free(r) == region[r].alive /\ me.r # r

\* the generation counter is capped: at MaxGen in a program that allocates,
\* one collection later where the program starts from a store already filled
GenBound == IF nextId > MaxAllocs + 1 THEN MaxGen + 1 ELSE MaxGen

CanCollect(r) == debug => region[r].generation < GenBound

\* Region::gc
Gc(r) ==
    /\ phase = "idle" /\ Free(r) /\ CanCollect(r)
    /\ op' = [name |-> "gc", r |-> r, into |-> 0, additional |-> 0]
    /\ StartGc("gc", r, r, <<>>, GcCapacity(Len(region[r].data)), NextGen(r))
    /\ ensured' = [ensured EXCEPT ![r] = 0]
    /\ UNCHANGED <<debug, moved, got, twice, ent, me, nextId, drops>>

\* what an ensure(additional) on region r leaves for the allocations after
\* it; nothing is recorded once the model has no allocation left to observe
Credit(r, additional) ==
    [ensured EXCEPT ![r] = IF nextId <= MaxAllocs THEN additional ELSE 0]

\* Region::ensure.  Where len + additional overflows, a build with overflow
\* checks panics there and a build without them goes on with the wrapped sum;
\* a panic before anything is written leaves the Region as it was
Ensure(r, additional) ==
    /\ phase = "idle" /\ Free(r)
    /\ LET len == Len(region[r].data) IN
       \E checks \in IF len + additional > UsizeMax THEN BOOLEAN ELSE {FALSE} :
          IF checks
          THEN UNCHANGED vars
          ELSE IF ~EnsureCollects(r, additional)
          THEN /\ ensured' = Credit(r, additional)
               /\ pre' = NoPre
               /\ UNCHANGED <<op, gc, region, phase, wcell, rcell>>
               /\ UNCHANGED <<debug, moved, got, twice, ent, me, nextId, drops>>
          ELSE IF CapacityOverflow(EnsureCapacity(len, additional))
          THEN UNCHANGED vars
          ELSE /\ CanCollect(r)
               /\ ensured' = Credit(r, additional)
               /\ op' = [name |-> "ensure", r |-> r, into |-> 0,
                         additional |-> additional]
               /\ StartGc("ensure", r, r, <<>>,
                          EnsureCapacity(len, additional), NextGen(r))
               /\ UNCHANGED <<debug, moved, got, twice, ent, me, nextId, drops>>

\* a faulty variant: alloci calls the factory without self.ensure(1) before it
AllocBeginNoEnsure(r) ==
    /\ phase = "idle" /\ Free(r) /\ me = NoMe
    /\ nextId <= MaxAllocs
    /\ op' = [name |-> "alloc", r |-> r, into |-> 0, additional |-> 1]
    /\ phase' = "alloc_push"
    /\ pre' = NoPre
    /\ ensured' = [ensured EXCEPT ![r] = IF @ > 0 THEN @ - 1 ELSE 0]
    /\ UNCHANGED <<debug, moved, got, twice, ent, me, nextId, drops, gc, region, wcell, rcell>>

\* Region::alloci, up to the return of self.ensure(1)
AllocBegin(r) ==
    /\ phase = "idle" /\ Free(r) /\ me = NoMe
    /\ nextId <= MaxAllocs
    /\ op' = [name |-> "alloc", r |-> r, into |-> 0, additional |-> 1]
    /\ IF EnsureCollects(r, 1)
       THEN /\ CanCollect(r)
            /\ StartGc("ensure", r, r, <<>>,
                       EnsureCapacity(Len(region[r].data), 1), NextGen(r))
       ELSE /\ phase' = "alloc_push"
            /\ pre' = NoPre
            /\ UNCHANGED <<gc, region, wcell, rcell>>
    /\ ensured' = [ensured EXCEPT ![r] = IF @ > 0 THEN @ - 1 ELSE 0]
    /\ UNCHANGED <<debug, moved, got, twice, ent, me, nextId, drops>>

\* the Ix values the user can hold that are valid for region r
ValidIx(r) == {IxNew(n, RegionStamp(r)) : n \in 0..(Len(region[r].data) - 1)}

FieldChoices(r) == {NoneIx} \cup ValidIx(r)

\* Vec::push: the capacity after a push onto a Vec of length len
PushCapacity(cap, len) == IF len < cap THEN cap ELSE Max(2 * cap, len + 1)

\* a faulty variant: the new Entry is made with an anchor of its own
AllocPushWithAnchor(edges) ==
    /\ phase = "alloc_push"
    /\ LET r == op.r
           n == Len(region[r].data)
       IN /\ region' = [region EXCEPT
                          ![r].data = Append(@, Present(nextId, edges)),
                          ![r].cap = PushCapacity(@, n)]
          /\ me' = [r |-> r, ix |-> IxNew(n, RegionStamp(r))]
          /\ wcell' = [wcell EXCEPT ![nextId] =
                          [held |-> TRUE, ix |-> IxNew(n, RegionStamp(r)),
                           weaks |-> 0]]
    /\ nextId' = nextId + 1
    /\ phase' = "idle"
    /\ op' = NoOp
    /\ pre' = NoPre
    /\ UNCHANGED <<debug, moved, got, twice, ent, rcell, gc, drops, ensured>>

\* Region::alloci, from the call of make_t to the return of the MutEntry
AllocPush(edges) ==
    /\ phase = "alloc_push"
    /\ LET r == op.r
           n == Len(region[r].data)
       IN /\ region' = [region EXCEPT
                          ![r].data = Append(@, Present(nextId, edges)),
                          ![r].cap = PushCapacity(@, n)]
          /\ me' = [r |-> r, ix |-> IxNew(n, RegionStamp(r))]
    /\ nextId' = nextId + 1
    /\ phase' = "idle"
    /\ op' = NoOp
    /\ pre' = NoPre
    /\ UNCHANGED <<debug, moved, got, twice, ent, wcell, rcell, gc, drops, ensured>>

\* ------------------------------------------------------------- MutEntry
\* the content of the entry a MutEntry borrows
MeId == At(region[me.r].data, me.ix.ix).id

\* a faulty variant: root() registers an entry on every call
MutEntryRootAlwaysRegisters ==
    /\ phase = "idle" /\ me # NoMe
    /\ LET id == MeId
           c == rcell[id]
       IN IF c.roots > 0
          THEN /\ c.roots < MaxShares
               /\ rcell' = [rcell EXCEPT ![id].roots = @ + 1]
               /\ region' = [region EXCEPT
                               ![me.r].roots = Append(@, [id |-> id, inc |-> c.inc])]
          ELSE /\ c.inc < MaxIncarn
               /\ rcell' = [rcell EXCEPT
                              ![id] = [inc |-> c.inc + 1, ix |-> me.ix, roots |-> 1]]
               /\ region' = [region EXCEPT
                               ![me.r].roots = Append(@, [id |-> id, inc |-> c.inc + 1])]
    /\ pre' = NoPre
    /\ ensured' = NoCredit
    /\ UNCHANGED <<debug, moved, got, twice, ent, wcell, me, phase, gc, nextId, drops, op>>

\* MutEntry::root: a share of the anchor this MutEntry made, or a new anchor
\* pushed onto the root set
MutEntryRoot ==
    /\ phase = "idle" /\ me # NoMe
    /\ LET id == MeId
           c == rcell[id]
       IN IF c.roots > 0
          THEN /\ c.roots < MaxShares
               /\ rcell' = [rcell EXCEPT ![id].roots = @ + 1]
               /\ UNCHANGED region
          ELSE /\ c.inc < MaxIncarn
               /\ rcell' = [rcell EXCEPT
                              ![id] = [inc |-> c.inc + 1, ix |-> me.ix, roots |-> 1]]
               /\ region' = [region EXCEPT
                               ![me.r].roots = Append(@, [id |-> id, inc |-> c.inc + 1])]
    /\ pre' = NoPre
    /\ ensured' = NoCredit
    /\ UNCHANGED <<debug, moved, got, twice, ent, wcell, me, phase, gc, nextId, drops, op>>

\* Entry::weak
EntryWeak(c, ix) ==
    IF c.held THEN [c EXCEPT !.weaks = @ + 1]
    ELSE [held |-> TRUE, ix |-> ix, weaks |-> 1]

\* MutEntry::weak
MutEntryWeak ==
    /\ phase = "idle" /\ me # NoMe
    /\ wcell[MeId].weaks < MaxShares
    /\ wcell' = [wcell EXCEPT ![MeId] = EntryWeak(@, me.ix)]
    /\ pre' = NoPre
    /\ ensured' = NoCredit
    /\ UNCHANGED <<debug, moved, got, twice, ent, region, rcell, me, phase, gc, nextId, drops, op>>

\* MutEntry::as_mut_ref, used to store an Ix in a field
MutEntrySetEdge(f, t) ==
    /\ phase = "idle" /\ me # NoMe
    /\ At(region[me.r].data, me.ix.ix).edges[f] # t
    /\ region' = [region EXCEPT ![me.r].data[me.ix.ix + 1].edges[f] = t]
    /\ pre' = NoPre
    /\ ensured' = NoCredit
    /\ UNCHANGED <<debug, moved, got, twice, ent, wcell, rcell, me, phase, gc, nextId, drops, op>>

\* the MutEntry goes out of scope
MutEntryDrop ==
    /\ phase = "idle" /\ me # NoMe
    /\ me' = NoMe
    /\ pre' = NoPre
    /\ UNCHANGED <<debug, moved, got, twice, ent, region, wcell, rcell, phase, gc, nextId, drops, op, ensured>>

\* ------------------------------------------------------------- handles
\* Ix::get_mut on a valid Ix, used to store an Ix in a field
SetEdge(r, n, f, t) ==
    /\ phase = "idle" /\ Free(r)
    /\ InRange(region[r].data, n)
    /\ At(region[r].data, n).edges[f] # t
    /\ region' = [region EXCEPT ![r].data[n + 1].edges[f] = t]
    /\ pre' = NoPre
    /\ ensured' = NoCredit
    /\ UNCHANGED <<debug, moved, got, twice, ent, wcell, rcell, me, phase, gc, nextId, drops, op>>

\* Clone for Root
RootClone(id) ==
    /\ phase = "idle"
    /\ me # NoMe => id = MeId
    /\ rcell[id].roots > 0 /\ rcell[id].roots < MaxShares
    /\ rcell' = [rcell EXCEPT ![id].roots = @ + 1]
    /\ pre' = NoPre
    /\ ensured' = NoCredit
    /\ UNCHANGED <<debug, moved, got, twice, ent, region, wcell, me, phase, gc, nextId, drops, op>>

\* a Root is dropped; the anchor goes with the last one
RootDrop(id) ==
    /\ phase = "idle"
    /\ me # NoMe => id = MeId
    /\ rcell[id].roots > 0
    /\ rcell' = [rcell EXCEPT ![id].roots = @ - 1,
                              ![id].ix = IF rcell[id].roots = 1 THEN NoneIx ELSE @]
    /\ pre' = NoPre
    /\ ensured' = NoCredit
    /\ UNCHANGED <<debug, moved, got, twice, ent, region, wcell, me, phase, gc, nextId, drops, op>>

\* Clone for Weak
WeakClone(id) ==
    /\ phase = "idle"
    /\ me # NoMe => id = MeId
    /\ wcell[id].weaks > 0 /\ wcell[id].weaks < MaxShares
    /\ wcell' = [wcell EXCEPT ![id].weaks = @ + 1]
    /\ pre' = NoPre
    /\ ensured' = NoCredit
    /\ UNCHANGED <<debug, moved, got, twice, ent, region, rcell, me, phase, gc, nextId, drops, op>>

\* a Weak is dropped
WeakDrop(id) ==
    /\ phase = "idle"
    /\ me # NoMe => id = MeId
    /\ wcell[id].weaks > 0
    /\ wcell' = [wcell EXCEPT ![id].weaks = @ - 1]
    /\ pre' = NoPre
    /\ ensured' = NoCredit
    /\ UNCHANGED <<debug, moved, got, twice, ent, region, rcell, me, phase, gc, nextId, drops, op>>

\* Region::gc_into(self, other), up to its call of prim_gc_to: other.ensure
\* of the source's length, which collects other where its capacity is short
GcIntoEnsure(s, o) ==
    /\ phase = "idle" /\ s # o /\ Free(s) /\ Free(o)
    /\ LET additional == Len(region[s].data) IN
       /\ op' = [name |-> "gc_into", r |-> s, into |-> o,
                 additional |-> additional]
       /\ IF EnsureCollects(o, additional)
          THEN /\ CanCollect(o)
               /\ StartGc("ensure", o, o, <<>>,
                          EnsureCapacity(Len(region[o].data), additional),
                          NextGen(o))
          ELSE /\ phase' = "into"
               /\ pre' = NoPre
               /\ UNCHANGED <<gc, region, wcell, rcell>>
    /\ ensured' = NoCredit
    /\ UNCHANGED <<debug, moved, got, twice, ent, me, nextId, drops>>

\* a faulty variant: gc_into stamps the moved objects with the source's stamp
GcIntoMoveKeepsStamp ==
    /\ phase = "into"
    /\ op' = op
    /\ StartGc("into", op.r, op.into, region[op.into].data,
               region[op.into].cap, RegionStamp(op.r))
    /\ UNCHANGED <<debug, moved, got, twice, ent, me, nextId, drops, ensured>>

\* a faulty variant: gc_into collects into a store of its own, not onto other's
GcIntoMoveFromEmpty ==
    /\ phase = "into"
    /\ op' = op
    /\ StartGc("into", op.r, op.into, <<>>,
               region[op.into].cap, RegionStamp(op.into))
    /\ UNCHANGED <<debug, moved, got, twice, ent, me, nextId, drops, ensured>>

\* gc_into's prim_gc_to(self.data, other.data, self.roots, self's stamp,
\* other's stamp) up to the scan loop
GcIntoMove ==
    /\ phase = "into"
    /\ op' = op
    /\ StartGc("into", op.r, op.into, region[op.into].data,
               region[op.into].cap, RegionStamp(op.into))
    /\ UNCHANGED <<debug, moved, got, twice, ent, me, nextId, drops, ensured>>

\* a faulty variant: gc_into does not hand the source's roots to other
GcIntoFinishDropsRoots ==
    /\ phase = "scan"
    /\ ~(gc.objIndex < Len(gc.dst))
    /\ gc.kind = "into"
    /\ LET s == gc.src
           o == op.into
           old == region[s].data
       IN /\ region' = [region EXCEPT
                          ![o].data = gc.dst,
                          ![o].cap = gc.cap,
                          ![s].alive = FALSE,
                          ![s].data = <<>>,
                          ![s].cap = 0,
                          ![s].roots = <<>>]
          /\ drops' = DropStoreDrops(old, drops)
          /\ wcell' = DropStoreCells(old, wcell)
          /\ moved' = moved \cup
                        {At(gc.dst, n).id : n \in pre.base..(Len(gc.dst) - 1)}
    /\ gc' = NoGc
    /\ phase' = "idle"
    /\ op' = NoOp
    /\ UNCHANGED <<debug, got, twice, ent, rcell, me, nextId, pre, ensured>>

\* a faulty variant: gc_into leaves other's store without the moved objects
GcIntoFinishLosesStore ==
    /\ phase = "scan"
    /\ ~(gc.objIndex < Len(gc.dst))
    /\ gc.kind = "into"
    /\ LET s == gc.src
           o == op.into
           old == region[s].data
       IN /\ region' = [region EXCEPT
                          ![o].roots = @ \o TakeValidRoots(region[s].roots),
                          ![s].alive = FALSE,
                          ![s].data = <<>>,
                          ![s].cap = 0,
                          ![s].roots = <<>>]
          /\ drops' = DropStoreDrops(old, drops)
          /\ wcell' = DropStoreCells(old, wcell)
          /\ moved' = moved \cup
                        {At(gc.dst, n).id : n \in pre.base..(Len(gc.dst) - 1)}
    /\ gc' = NoGc
    /\ phase' = "idle"
    /\ op' = NoOp
    /\ UNCHANGED <<debug, got, twice, ent, rcell, me, nextId, pre, ensured>>

\* the rest of gc_into: the source's live roots join other's root set and the
\* source, passed by value, is dropped with what was left in it
GcIntoFinish ==
    /\ phase = "scan"
    /\ ~(gc.objIndex < Len(gc.dst))
    /\ gc.kind = "into"
    /\ LET s == gc.src
           o == op.into
           old == region[s].data
       IN /\ region' = [region EXCEPT
                          ![o].data = gc.dst,
                          ![o].cap = gc.cap,
                          ![o].roots = @ \o TakeValidRoots(region[s].roots),
                          ![s].alive = FALSE,
                          ![s].data = <<>>,
                          ![s].cap = 0,
                          ![s].roots = <<>>]
          /\ drops' = DropStoreDrops(old, drops)
          /\ wcell' = DropStoreCells(old, wcell)
          /\ moved' = moved \cup
                        {At(gc.dst, n).id : n \in pre.base..(Len(gc.dst) - 1)}
    /\ gc' = NoGc
    /\ phase' = "idle"
    /\ op' = NoOp
    /\ UNCHANGED <<debug, got, twice, ent, rcell, me, nextId, pre, ensured>>

\* ------------------------------------------------------------- specification

Next ==
    \/ \E r \in Regions : Gc(r)
    \/ \E r \in Regions, k \in (0..MaxEnsure) \cup {UsizeMax} : Ensure(r, k)
    \/ \E r \in Regions : AllocBegin(r)
    \/ /\ phase = "alloc_push"
       /\ \E edges \in [Fields -> FieldChoices(op.r)] : AllocPush(edges)
    \/ ScanStep
    \/ GcFinish
    \/ MutEntryRoot
    \/ MutEntryWeak
    \/ /\ me # NoMe
       /\ \E f \in Fields : \E t \in FieldChoices(me.r) : MutEntrySetEdge(f, t)
    \/ MutEntryDrop
    \/ \E r \in Regions, n \in 0..(MaxAllocs - 1), f \in Fields :
            \E t \in FieldChoices(r) : SetEdge(r, n, f, t)
    \/ \E id \in Ids : RootClone(id)
    \/ \E id \in Ids : RootDrop(id)
    \/ \E id \in Ids : WeakClone(id)
    \/ \E id \in Ids : WeakDrop(id)

Spec == Init /\ [][Next]_vars

\* a collection is a single call: once begun, its loop runs to its end
FairSpec == Spec /\ WF_vars(ScanStep) /\ WF_vars(GcFinish)

\* two Regions made by Region::new, one after the other
InitInto ==
    /\ debug \in BOOLEAN
    /\ region = [r \in Regions |-> NewRegion(r - 1)]
    /\ wcell = [i \in Ids |-> NoWCell]
    /\ rcell = [i \in Ids |-> NoRCell]
    /\ me = NoMe
    /\ phase = "idle"
    /\ gc = NoGc
    /\ nextId = 1
    /\ drops = [i \in Ids |-> 0]
    /\ op = NoOp
    /\ pre = NoPre
    /\ ensured = NoCredit
    /\ moved = {}
    /\ got = NoGot
    /\ twice = FALSE
    /\ ent = NoEnt

NextInto ==
    \/ \E r \in Regions : Gc(r)
    \/ \E r \in Regions : AllocBegin(r)
    \/ /\ phase = "alloc_push"
       /\ \E edges \in [Fields -> FieldChoices(op.r)] : AllocPush(edges)
    \/ ScanStep
    \/ GcFinish
    \/ \E s \in Regions, o \in Regions : GcIntoEnsure(s, o)
    \/ GcIntoMove
    \/ GcIntoFinish
    \/ MutEntryRoot
    \/ MutEntryWeak
    \/ MutEntryDrop
    \/ \E id \in Ids : RootDrop(id)
    \/ \E id \in Ids : WeakDrop(id)

\* programs that also merge one Region into another
SpecInto == InitInto /\ [][NextInto]_vars

NextStamp ==
    \/ \E r \in Regions : Gc(r)
    \/ \E r \in Regions, k \in 1..MaxEnsure : Ensure(r, k)
    \/ \E r \in Regions : AllocBegin(r)
    \/ /\ phase = "alloc_push"
       /\ \E edges \in [Fields -> FieldChoices(op.r)] : AllocPush(edges)
    \/ ScanStep
    \/ GcFinish
    \/ \E s \in Regions, o \in Regions : GcIntoEnsure(s, o)
    \/ GcIntoMove
    \/ GcIntoFinish
    \/ MutEntryRoot
    \/ MutEntryDrop
    \/ \E id \in Ids : RootDrop(id)

\* programs of two Regions that allocate, root, reserve, collect and merge
SpecStamp == InitInto /\ [][NextStamp]_vars

\* ------------------------------------------------------------- drawn stores
\* a faulty variant: unwinding drops the destination and forgets the source
UnwindForgetsSource ==
    /\ phase = "panicked"
    /\ drops' = DropStoreDrops(gc.dst, drops)
    /\ wcell' = DropStoreCells(gc.dst, wcell)
    /\ region' = [r \in Regions |->
                     [region[r] EXCEPT !.alive = FALSE, !.data = <<>>,
                                       !.cap = 0, !.roots = <<>>]]
    /\ gc' = NoGc
    /\ phase' = "unwound"
    /\ op' = NoOp
    /\ UNCHANGED <<debug, moved, got, twice, ent, rcell, me, nextId, pre, ensured>>

\* a panic raised inside prim_gc_to unwinds: the destination Vec drops the
\* spots below its length, the source store drops the spots still Present in
\* it, and the Regions are torn down with what they hold.  What push_spot
\* wrote above dst's length belongs to no Vec
Unwind ==
    /\ phase = "panicked"
    /\ LET s == gc.src
           rest == IF gc.kind = "into" THEN Regions \ {s, op.into}
                   ELSE Regions \ {s}
           others == IF rest = {} THEN <<>>
                     ELSE region[CHOOSE r \in rest : TRUE].data
           all == gc.dst \o region[s].data \o others
       IN /\ drops' = DropStoreDrops(all, drops)
          /\ wcell' = DropStoreCells(all, wcell)
          /\ region' = [r \in Regions |->
                           [region[r] EXCEPT !.alive = FALSE, !.data = <<>>,
                                             !.cap = 0, !.roots = <<>>]]
    /\ gc' = NoGc
    /\ phase' = "unwound"
    /\ op' = NoOp
    /\ UNCHANGED <<debug, moved, got, twice, ent, rcell, me, nextId, pre, ensured>>

\* the stamp of the Region the drawn store is in: it has been collected twice
DrawnStamp == <<0, IF debug THEN MaxGen ELSE 0>>

\* what a field of a drawn object holds: nothing, the Index of an object of
\* the store, or an Index kept from earlier: in the plain build an offset the
\* store no longer has, in the debug-arena build an Index of the generation
\* before or of a Region that is gone
DrawnFields ==
    {NoneIx}
    \cup {IxNew(n, DrawnStamp) : n \in 0..(MaxObjs - 1)}
    \cup (IF debug
          THEN {IxNew(MaxObjs, <<0, MaxGen - 1>>), IxNew(0, <<2, 1>>)}
          ELSE {IxNew(MaxObjs, DrawnStamp)})

\* the stores drawn: MaxObjs objects, the first with two fields, the others
\* with one
DrawnStores ==
    {<<Present(1, <<a, b>>), Present(2, <<c>>), Present(3, <<e>>)>> :
        a \in DrawnFields, b \in DrawnFields, c \in DrawnFields,
        e \in DrawnFields}

\* the root sets drawn: Roots of the first two objects, in either order of
\* registration
DrawnRoots == {<<>>, <<1>>, <<2>>, <<1, 2>>, <<2, 1>>}

\* a Region that ensure(MaxObjs) and MaxObjs allocations have filled, whose
\* objects' fields the user has set and some of whose objects have a Root,
\* and a second, new Region
InitCheney ==
    /\ debug \in BOOLEAN
    /\ twice \in BOOLEAN
    /\ \E d \in DrawnStores, rs \in DrawnRoots :
          /\ region = [r \in Regions |->
                         IF r = 1
                         THEN [alive |-> TRUE, data |-> d, cap |-> MaxObjs,
                               roots |-> [k \in 1..Len(rs) |->
                                             [id |-> rs[k], inc |-> 1]],
                               nonce |-> DrawnStamp[1],
                               generation |-> DrawnStamp[2]]
                         ELSE NewRegion(1)]
          /\ rcell = [i \in Ids |->
                         IF \E k \in 1..Len(rs) : rs[k] = i
                         THEN [inc |-> 1, ix |-> IxNew(i - 1, DrawnStamp),
                               roots |-> 1]
                         ELSE NoRCell]
    /\ wcell = [i \in Ids |-> NoWCell]
    /\ me = NoMe
    /\ phase = "idle"
    /\ gc = NoGc
    /\ nextId = MaxObjs + 1
    /\ drops = [i \in Ids |-> 0]
    /\ op = NoOp
    /\ pre = NoPre
    /\ ensured = NoCredit
    /\ moved = {}
    /\ got = NoGot
    /\ ent = NoEnt

NextCheney ==
    \/ Gc(1)
    \/ \E k \in 1..MaxEnsure : Ensure(1, k)
    \/ ScanStep
    \/ GcFinish
    \/ GcIntoEnsure(1, 2)
    \/ GcIntoMove
    \/ GcIntoFinish
    \/ Unwind

\* the collections of a store whose fields hold any Index a user can have
SpecCheney == InitCheney /\ [][NextCheney]_vars

\* ------------------------------------------------------------- drawn merges
\* the stamps of two Regions made one after the other and collected once each
SourceStamp == <<0, 1>>
OtherStamp == <<1, 1>>

\* what a field of an object of the source holds: nothing or the Index of
\* an object of the source
SourceFields == {NoneIx} \cup {IxNew(n, SourceStamp) : n \in 0..1}

\* what the field of other's object holds: nothing or its own Index
OtherFields == {NoneIx, IxNew(0, OtherStamp)}

\* the anchor of an Entry: none (Entry::new), one with a Weak held
\* (MutEntry::weak), or one whose Weak has been dropped
DrawnAnchors == {"none", "weak", "lapsed"}

DrawnAnchor(kind, ix) ==
    IF kind = "none" THEN NoWCell
    ELSE [held |-> TRUE, ix |-> ix, weaks |-> IF kind = "weak" THEN 1 ELSE 0]

\* the capacity of other: what alloc's ensure(1) gave it, or what an
\* ensure(3) before the allocation did
OtherCaps == {1, 3}

\* a source Region that ensure(2) and two allocations have filled (objects 1
\* and 2) and another Region that holds object 3, with room for the source's
\* objects or without; fields, Roots and Weaks as the user has made them
InitAppend ==
    /\ debug \in BOOLEAN
    /\ \E a \in SourceFields, b \in SourceFields, c \in OtherFields,
          rs \in DrawnRoots, r3 \in BOOLEAN, cap \in OtherCaps,
          w \in [Ids -> DrawnAnchors] :
          /\ region = [r \in Regions |->
                IF r = 1
                THEN [alive |-> TRUE,
                      data |-> <<Present(1, <<a>>), Present(2, <<b>>)>>,
                      cap |-> 2,
                      roots |-> [k \in 1..Len(rs) |-> [id |-> rs[k], inc |-> 1]],
                      nonce |-> IF debug THEN SourceStamp[1] ELSE 0,
                      generation |-> IF debug THEN SourceStamp[2] ELSE 0]
                ELSE [alive |-> TRUE,
                      data |-> <<Present(3, <<c>>)>>,
                      cap |-> cap,
                      roots |-> IF r3 THEN <<[id |-> 3, inc |-> 1]>> ELSE <<>>,
                      nonce |-> IF debug THEN OtherStamp[1] ELSE 0,
                      generation |-> IF debug THEN OtherStamp[2] ELSE 0]]
          /\ rcell = [i \in Ids |->
                IF i = 3
                THEN IF r3 THEN [inc |-> 1, ix |-> IxNew(0, OtherStamp), roots |-> 1]
                     ELSE NoRCell
                ELSE IF \E k \in 1..Len(rs) : rs[k] = i
                     THEN [inc |-> 1, ix |-> IxNew(i - 1, SourceStamp), roots |-> 1]
                     ELSE NoRCell]
          /\ wcell = [i \in Ids |->
                DrawnAnchor(w[i], IF i = 3 THEN IxNew(0, OtherStamp)
                                  ELSE IxNew(i - 1, SourceStamp))]
    /\ me = NoMe
    /\ phase = "idle"
    /\ gc = NoGc
    /\ nextId = MaxObjs + 1
    /\ drops = [i \in Ids |-> 0]
    /\ op = NoOp
    /\ pre = NoPre
    /\ ensured = NoCredit
    /\ moved = {}
    /\ got = NoGot
    /\ twice = FALSE
    /\ ent = NoEnt

NextAppend ==
    \/ GcIntoEnsure(1, 2)
    \/ GcIntoMove
    \/ ScanStep
    \/ GcFinish
    \/ GcIntoFinish

\* one Region merged into another that already holds an object
SpecAppend == InitAppend /\ [][NextAppend]_vars

NextRerun ==
    \/ Gc(1)
    \/ ScanStep
    \/ GcFinish

\* gc() called again and again on a Region that holds two objects
SpecRerun == InitAppend /\ [][NextRerun]_vars

\* ------------------------------------------------------------- entries
\* src/entry/safe_entry.rs and src/entry/unsafe_entry.rs: one spot of each,
\* made from the same value and taken through the same calls.  An
\* implementation's side of ent records the spot's tag, the anchor its
\* header holds (cur, 0 for none), the anchors made so far with the Index in
\* each, and the Index of a BrokenHeart; ent.hs are the Weaks the caller
\* holds, each with the anchor it has on either side (0: the call that was to
\* return it panicked)
Returned(ix) == [ok |-> TRUE, ix |-> ix]

\* the call panicked
Panicked == [ok |-> FALSE, ix |-> -2]

\* Weak::ix gave None; a call that returns ()
Nothing == [ok |-> TRUE, ix |-> -1]

\* Spot::new in either file: a Present spot without an anchor
SpotNew ==
    [tag |-> "Present", cur |-> 0, made |-> 0,
     cell |-> [k \in 1..MaxIncarn |-> [alive |-> FALSE, ix |-> -1]],
     fwd |-> -1]

\* Rc::weak_count of the anchor in the header of side sd
WeakCount(sd) ==
    Cardinality({j \in 1..Len(ent.hs) : ent.hs[j][sd] = ent[sd].cur})

\* the arm of weak that makes the anchor: Rc::new(Cell::new(ix))
NewAnchor(e, ix) ==
    [e |-> [e EXCEPT !.cur = e.made + 1, !.made = e.made + 1,
                     !.cell[e.made + 1] = [alive |-> TRUE, ix |-> ix]],
     out |-> Returned(ix), h |-> e.made + 1]

\* safe_entry.rs Entry::weak; out is what the Weak returned reports as its ix
SafeEntryWeak(e, ix) ==
    IF e.cur # 0
    THEN [e |-> e, out |-> Returned(e.cell[e.cur].ix), h |-> e.cur]
    ELSE NewAnchor(e, ix)

\* unsafe_entry.rs Header::weak, with its
\* "assert!(Rc::weak_count(&rc) == 1)" after the downgrade
UnsafeHeaderWeak(e, ix) ==
    IF e.cur # 0
    THEN IF WeakCount("packed") + 1 = 1
         THEN [e |-> e, out |-> Returned(e.cell[e.cur].ix), h |-> e.cur]
         ELSE [e |-> e, out |-> Panicked, h |-> 0]
    ELSE NewAnchor(e, ix)

\* Entry::check_clear_rc, the same in both files
EntryClearRc(e, sd) ==
    IF e.cur # 0 /\ WeakCount(sd) = 0
    THEN [e EXCEPT !.cur = 0, !.cell[e.cur].alive = FALSE]
    ELSE e

\* rc.set(other) where the header holds an anchor
SetAnchor(e, other) ==
    IF e.cur # 0 THEN [e EXCEPT !.cell[e.cur].ix = other] ELSE e

\* safe_entry.rs Entry::move_to: check_clear_rc, then rc.set(other)
SafeEntryMoveTo(e, other) == SetAnchor(EntryClearRc(e, "safe"), other)

\* unsafe_entry.rs Entry::move_to: rc.set(other)
UnsafeEntryMoveTo(e, other) == SetAnchor(e, other)

\* unsafe_entry.rs BrokenHeart::from_unchecked: ix.ix().wrapping_shl(1) | 1
BrokenHeartFromUnchecked(ix) == ((2 * ix) % (UsizeMax + 1)) + 1

\* unsafe_entry.rs BrokenHeart::into_unchecked: self.0.wrapping_shr(1)
BrokenHeartIntoUnchecked(bits) == bits \div 2

\* safe_entry.rs Spot::move_to: the spot left behind is BrokenHeart(other)
SafeSpotMoveTo(e, other) ==
    [SafeEntryMoveTo(e, other) EXCEPT !.tag = "BrokenHeart", !.fwd = other]

\* unsafe_entry.rs Spot::move_to: the header left behind is
\* Header::broken_heart(other)
UnsafeSpotMoveTo(e, other) ==
    [UnsafeEntryMoveTo(e, other) EXCEPT
        !.tag = "BrokenHeart", !.fwd = BrokenHeartFromUnchecked(other)]

\* safe_entry.rs Spot::variant
SafeSpotVariant(e) ==
    IF e.tag = "Present" THEN Nothing ELSE Returned(e.fwd)

\* unsafe_entry.rs Spot::variant
UnsafeSpotVariant(e) ==
    IF e.tag = "Present" THEN Nothing
    ELSE Returned(BrokenHeartIntoUnchecked(e.fwd))

\* Weak::ix on the Weak with anchor k of side e
WeakIxOf(e, k) ==
    IF e.cell[k].alive THEN Returned(e.cell[k].ix) ELSE Nothing

\* drop of a spot: a Present spot drops its value and its anchor, a
\* BrokenHeart nothing; the entry taken out of it lives on elsewhere
SpotDrop(e) ==
    IF e.tag = "Present" /\ e.cur # 0
    THEN [e EXCEPT !.tag = "Dropped", !.cur = 0, !.cell[e.cur].alive = FALSE]
    ELSE [e EXCEPT !.tag = "Dropped"]

\* the offsets an entry is told it is at or moves to
EntIx == 0..MaxObjs

EntUnchanged ==
    UNCHANGED <<debug, region, wcell, rcell, me, phase, gc, nextId, drops,
                op, pre, ensured, moved, got, twice>>

\* Spot::new(t) on both sides
EntNew ==
    /\ ent = NoEnt
    /\ ent' = [on |-> TRUE, safe |-> SpotNew, packed |-> SpotNew, hs |-> <<>>,
               last |-> "new", res |-> [safe |-> Nothing, packed |-> Nothing]]
    /\ EntUnchanged

\* the spot of each side is Present: there is an Entry to call
EntPresent == ent.on /\ ent.safe.tag = "Present" /\ ent.packed.tag = "Present"

\* entry.weak(ix) on both sides; the caller keeps what it gets
EntWeak(ix) ==
    /\ EntPresent
    /\ Len(ent.hs) < MaxShares
    /\ ent.safe.cur # 0 \/ ent.safe.made < MaxIncarn
    /\ ent.packed.cur # 0 \/ ent.packed.made < MaxIncarn
    /\ LET a == SafeEntryWeak(ent.safe, ix)
           b == UnsafeHeaderWeak(ent.packed, ix)
       IN ent' = [ent EXCEPT !.safe = a.e, !.packed = b.e,
                             !.hs = Append(@, [safe |-> a.h, packed |-> b.h]),
                             !.last = "weak",
                             !.res = [safe |-> a.out, packed |-> b.out]]
    /\ EntUnchanged

\* entry.move_to(ix) on both sides
EntMoveTo(ix) ==
    /\ EntPresent
    /\ ent' = [ent EXCEPT !.safe = SafeEntryMoveTo(@, ix),
                          !.packed = UnsafeEntryMoveTo(@, ix),
                          !.last = "move_to",
                          !.res = [safe |-> Nothing, packed |-> Nothing]]
    /\ EntUnchanged

\* spot.move_to(ix) on both sides
EntSpotMoveTo(ix) ==
    /\ EntPresent
    /\ ent' = [ent EXCEPT !.safe = SafeSpotMoveTo(@, ix),
                          !.packed = UnsafeSpotMoveTo(@, ix),
                          !.last = "spot_move_to",
                          !.res = [safe |-> Nothing, packed |-> Nothing]]
    /\ EntUnchanged

\* entry.check_clear_rc() on both sides
EntCheckClearRc ==
    /\ EntPresent
    /\ ent' = [ent EXCEPT !.safe = EntryClearRc(@, "safe"),
                          !.packed = EntryClearRc(@, "packed"),
                          !.last = "check_clear_rc",
                          !.res = [safe |-> Nothing, packed |-> Nothing]]
    /\ EntUnchanged

\* spot.variant() on both sides
EntVariant ==
    /\ ent.on /\ ent.safe.tag # "Dropped"
    /\ ent' = [ent EXCEPT !.last = "variant",
                          !.res = [safe |-> SafeSpotVariant(ent.safe),
                                   packed |-> UnsafeSpotVariant(ent.packed)]]
    /\ EntUnchanged

\* drop of the spot on both sides
EntDrop ==
    /\ ent.on /\ ent.safe.tag # "Dropped"
    /\ ent' = [ent EXCEPT !.safe = SpotDrop(@), !.packed = SpotDrop(@),
                          !.last = "drop",
                          !.res = [safe |-> Nothing, packed |-> Nothing]]
    /\ EntUnchanged

\* Weak::ix on the j-th Weak the caller holds, on both sides
EntWeakIx(j) ==
    /\ ent.on /\ j \in 1..Len(ent.hs)
    /\ ent.hs[j].safe # 0 /\ ent.hs[j].packed # 0
    /\ ent' = [ent EXCEPT !.last = "ix",
                          !.res = [safe |-> WeakIxOf(ent.safe, ent.hs[j].safe),
                                   packed |-> WeakIxOf(ent.packed, ent.hs[j].packed)]]
    /\ EntUnchanged

\* the caller drops the j-th Weak it holds
EntWeakDrop(j) ==
    /\ ent.on /\ j \in 1..Len(ent.hs)
    /\ ent' = [ent EXCEPT !.hs = SubSeq(@, 1, j - 1) \o SubSeq(@, j + 1, Len(@)),
                          !.last = "drop_weak",
                          !.res = [safe |-> Nothing, packed |-> Nothing]]
    /\ EntUnchanged

InitEntry ==
    /\ debug = FALSE
    /\ region = [r \in Regions |-> [NewRegion(0) EXCEPT !.alive = FALSE]]
    /\ wcell = [i \in Ids |-> NoWCell]
    /\ rcell = [i \in Ids |-> NoRCell]
    /\ me = NoMe
    /\ phase = "idle"
    /\ gc = NoGc
    /\ nextId = 1
    /\ drops = [i \in Ids |-> 0]
    /\ op = NoOp
    /\ pre = NoPre
    /\ ensured = NoCredit
    /\ moved = {}
    /\ got = NoGot
    /\ twice = FALSE
    /\ ent = NoEnt

NextEntry ==
    \/ EntNew
    \/ \E ix \in EntIx : EntWeak(ix)
    \/ \E ix \in EntIx : EntMoveTo(ix)
    \/ \E ix \in EntIx : EntSpotMoveTo(ix)
    \/ EntCheckClearRc
    \/ EntVariant
    \/ EntDrop
    \/ \E j \in 1..MaxShares : EntWeakIx(j)
    \/ \E j \in 1..MaxShares : EntWeakDrop(j)

\* the two implementations of Spot and Entry under one sequence of calls
SpecEntry == InitEntry /\ [][NextEntry]_vars

\* ------------------------------------------------------------- lookups
\* the Ix values a lookup is made with: any offset up to one past the largest
\* store, and in the debug-arena build any nonce and generation
LookupIx ==
    {[ix |-> n, nonce |-> k, generation |-> g] :
        n \in 0..MaxAllocs,
        k \in IF debug THEN {0, 1} ELSE {0},
        g \in IF debug THEN 0..MaxGen ELSE {0}}

\* the stores a lookup is made in: each spot is Present or, as in the source
\* store of a collection, a BrokenHeart
LookupSpots(n) == {Present(n, NoEdges), BrokenHeart(IxNew(0, <<0, 0>>))}

LookupStores ==
    {<<>>}
    \cup {<<a>> : a \in LookupSpots(1)}
    \cup {<<a, b>> : a \in LookupSpots(1), b \in LookupSpots(2)}

\* a Region with some store and some generation, and a second, new Region
InitLookup ==
    /\ debug \in BOOLEAN
    /\ \E d \in LookupStores : \E g \in IF debug THEN 0..MaxGen ELSE {0} :
          region = [r \in Regions |->
                      IF r = 1
                      THEN [NewRegion(0) EXCEPT !.data = d, !.cap = Len(d),
                                                !.generation = g]
                      ELSE NewRegion(1)]
    /\ wcell = [i \in Ids |-> NoWCell]
    /\ rcell = [i \in Ids |-> NoRCell]
    /\ me = NoMe
    /\ phase = "idle"
    /\ gc = NoGc
    /\ nextId = 1
    /\ drops = [i \in Ids |-> 0]
    /\ op = NoOp
    /\ pre = NoPre
    /\ ensured = NoCredit
    /\ moved = {}
    /\ got = NoGot
    /\ twice = FALSE
    /\ ent = NoEnt

\* a call of Ix::try_get
IxTryGetCall(ix, r) ==
    /\ phase = "idle" /\ region[r].alive
    /\ LET t == IxTryGet(ix, r) IN
       got' = [fn |-> "try_get", ix |-> ix, r |-> r,
               res |-> IF t.ok THEN "Ok" ELSE t.err, id |-> t.id]
    /\ UNCHANGED <<debug, region, wcell, rcell, me, phase, gc, nextId, drops,
                   op, pre, ensured, moved, twice, ent>>

\* a call of Ix::try_get_mut
IxTryGetMutCall(ix, r) ==
    /\ phase = "idle" /\ Free(r)
    /\ LET t == IxTryGet(ix, r) IN
       got' = [fn |-> "try_get_mut", ix |-> ix, r |-> r,
               res |-> IF t.ok THEN "Ok" ELSE t.err, id |-> t.id]
    /\ UNCHANGED <<debug, region, wcell, rcell, me, phase, gc, nextId, drops,
                   op, pre, ensured, moved, twice, ent>>

\* a call of Ix::check_region
IxCheckRegionCall(ix, r) ==
    /\ phase = "idle" /\ region[r].alive
    /\ got' = [fn |-> "check_region", ix |-> ix, r |-> r,
               res |-> CheckRegion(ix, r), id |-> 0]
    /\ UNCHANGED <<debug, region, wcell, rcell, me, phase, gc, nextId, drops,
                   op, pre, ensured, moved, twice, ent>>

NextLookup ==
    \/ \E ix \in LookupIx, r \in Regions : IxTryGetCall(ix, r)
    \/ \E ix \in LookupIx, r \in Regions : IxTryGetMutCall(ix, r)
    \/ \E ix \in LookupIx, r \in Regions : IxCheckRegionCall(ix, r)

\* lookups with any Ix in any store
SpecLookup == InitLookup /\ [][NextLookup]_vars

\* ------------------------------------------------------------- properties
\* no Region operation is under way
Quiet == phase \in {"idle", "alloc_push"}

\* a collection has just returned and nothing has been done since
Collected == Quiet /\ pre # NoPre

\* the store the last collection filled
Post == region[pre.into].data

Offsets(d) == 0..(Len(d) - 1)

\* where the object id sits in store d
SlotsOf(d, id) == {n \in Offsets(d) : At(d, n).tag = "Present" /\ At(d, n).id = id}

Slot(d, id) == CHOOSE n \in SlotsOf(d, id) : TRUE

\* the objects of the store the last collection started from that a live
\* Root designated, and those reachable from them
PreRoots == {n \in Offsets(pre.data) :
                At(pre.data, n).tag = "Present" /\ At(pre.data, n).id \in pre.rootIds}

PreReach == ReachFrom(pre.data, PreRoots)

PreReachIds == {At(pre.data, n).id : n \in PreReach}

\* the objects the fields of the object at offset n designate
Succ(d, n) ==
    {m \in Offsets(d) : \E f \in DOMAIN At(d, n).edges : At(d, n).edges[f].ix = m}

OnCycle(d, n) == n \in ReachFrom(d, Succ(d, n))

Expired == [ok |-> FALSE, err |-> "EntryExpired", id |-> 0, edges |-> <<>>]

\* C1: every object reachable from a live Root when a collection starts is
\* present exactly once, with the same value, in the store the collection
\* leaves behind
LivenessPreservation ==
    Collected => \A i \in PreReachIds : Cardinality(SlotsOf(Post, i)) = 1

\* C1 witness: a collection kept an object that only a field of another
\* object led to
LivenessPreservationSeen ==
    Collected /\ \E i \in PreReachIds : i \notin pre.rootIds

\* C2: after a collection every object that was not reachable from a live
\* Root has been dropped exactly once; no value is ever dropped twice; and no
\* object still in a store (so none a Root reaches) has been dropped
Reclamation ==
    /\ \A i \in Ids : drops[i] <= 1
    /\ \A r \in Regions : \A i \in PresentIds(region[r].data) : drops[i] = 0
    /\ phase = "scan" => \A i \in PresentIds(gc.dst) : drops[i] = 0
    /\ Collected => \A i \in PresentIds(pre.data) \ PreReachIds :
                        drops[i] = 1 /\ SlotsOf(Post, i) = {}

\* C2 witness: a gc() dropped one object and kept another
ReclamationSeen ==
    /\ Collected /\ pre.op = "gc"
    /\ \E i \in PresentIds(pre.data) \ PreReachIds : drops[i] = 1
    /\ PreReachIds # {}

\* C3: after a collection every field of a surviving object that designated
\* an object designates the same object by its new index, and every empty
\* field is still empty
IndexForwarding ==
    Collected =>
        \A n \in PreReach : \A f \in Fields :
            LET old == At(pre.data, n).edges[f]
                i == At(pre.data, n).id
            IN /\ SlotsOf(Post, i) # {}
               /\ LET new == At(Post, Slot(Post, i)).edges[f] IN
                  IF old = NoneIx THEN new = NoneIx
                  ELSE /\ InRange(pre.data, old.ix)
                       /\ At(pre.data, old.ix).tag = "Present"
                       /\ LET t == At(pre.data, old.ix).id IN
                          /\ SlotsOf(Post, t) # {}
                          /\ new = IxNew(Slot(Post, t), RegionStamp(pre.into))

\* C3 witness: a collection moved the target of a field of a survivor, and
\* the field now holds another offset than before
IndexForwardingSeen ==
    /\ Collected
    /\ \E n \in PreReach : \E f \in Fields :
          /\ At(pre.data, n).edges[f] # NoneIx
          /\ SlotsOf(Post, At(pre.data, n).id) # {}
          /\ At(Post, Slot(Post, At(pre.data, n).id)).edges[f].ix
                # At(pre.data, n).edges[f].ix

\* C4: whenever no operation is under way, so after every allocation and
\* every collection, each Root of which a share is held reads the index at
\* which its object now sits, and try_get with it gives Ok and that object
RootStability ==
    Quiet => \A i \in Ids : rcell[i].roots > 0 =>
        \E r \in Regions :
            /\ region[r].alive
            /\ Cardinality(SlotsOf(region[r].data, i)) = 1
            /\ RootIx(i) = IxNew(Slot(region[r].data, i), RegionStamp(r))
            /\ RootTryGet(i, r).ok
            /\ RootTryGet(i, r).id = i

\* C4 witness: a collection moved an object whose Root is held
RootStabilitySeen ==
    /\ Collected
    /\ \E i \in pre.rootIds :
          /\ rcell[i].roots > 0
          /\ SlotsOf(Post, i) # {}
          /\ Slot(pre.data, i) # Slot(Post, i)

\* C5: after a collection a Weak whose target survived reads the target's
\* new index, and try_get with it gives Ok and the target
WeakSurvives ==
    Collected => \A i \in PreReachIds : wcell[i].weaks > 0 =>
        /\ SlotsOf(Post, i) # {}
        /\ WeakIx(i) = IxNew(Slot(Post, i), RegionStamp(pre.into))
        /\ WeakTryGet(i, pre.into).ok
        /\ WeakTryGet(i, pre.into).id = i

\* C5 witness: a collection moved an object that has a Weak and no Root
WeakSurvivesSeen ==
    /\ Collected
    /\ \E i \in PreReachIds \ pre.rootIds :
          /\ wcell[i].weaks > 0
          /\ SlotsOf(Post, i) # {}
          /\ Slot(pre.data, i) # Slot(Post, i)

\* C6: a Weak whose target has been reclaimed reads None and fails try_get
\* and try_get_mut with EntryExpired on every Region, in every later state
WeakExpiry ==
    \A i \in Ids : (wcell[i].weaks > 0 /\ drops[i] > 0) =>
        /\ WeakIx(i) = NoneIx
        /\ \A r \in Regions : region[r].alive => WeakTryGet(i, r) = Expired

\* C6 witness: a Weak has expired and a later allocation sits in the store
WeakExpirySeen ==
    \E i \in Ids :
        /\ wcell[i].weaks > 0 /\ drops[i] > 0
        /\ \E r \in Regions : region[r].alive /\
              \E n \in Offsets(region[r].data) : At(region[r].data, n).id > i

\* C7: an object that had a Root, has none left when a collection starts and
\* is not reachable from another Root is reclaimed by that collection, and
\* the Weaks still held on it do not keep it: they expire
DroppedRootReclaimed ==
    Collected => \A i \in PresentIds(pre.data) :
        (rcell[i].inc > 0 /\ i \notin PreReachIds) =>
            /\ drops[i] = 1
            /\ SlotsOf(Post, i) = {}
            /\ wcell[i].weaks > 0 => WeakIx(i) = NoneIx

\* C7 witness: a collection reclaimed an object whose last Root had been
\* dropped while a Weak on it was held
DroppedRootReclaimedSeen ==
    /\ Collected
    /\ \E i \in PresentIds(pre.data) :
          /\ rcell[i].inc > 0 /\ i \notin PreReachIds
          /\ wcell[i].weaks > 0
          /\ drops[i] = 1

\* C8: the objects of a cycle, self-edges included, that no live Root reaches
\* are reclaimed by the next collection, and every Weak on them expires
CyclesReclaimed ==
    Collected => \A n \in Offsets(pre.data) :
        (OnCycle(pre.data, n) /\ n \notin PreReach) =>
            LET i == At(pre.data, n).id IN
            /\ drops[i] = 1
            /\ SlotsOf(Post, i) = {}
            /\ wcell[i].weaks > 0 =>
                  (WeakIx(i) = NoneIx /\ WeakTryGet(i, pre.into) = Expired)

\* C8 witness: a gc() met two objects that pointed at each other, each with
\* a Weak held and neither reachable from a Root
CyclesReclaimedSeen ==
    /\ Collected /\ pre.op = "gc"
    /\ \E n, m \in Offsets(pre.data) :
          /\ n # m
          /\ m \in Succ(pre.data, n) /\ n \in Succ(pre.data, m)
          /\ n \notin PreReach /\ m \notin PreReach
          /\ wcell[At(pre.data, n).id].weaks > 0
          /\ wcell[At(pre.data, m).id].weaks > 0

\* C9: every collection ends, whatever the graph: the cursor never passes the
\* end of the destination, each turn of the loop scans one copied object, no
\* more objects are copied than the source held, and the loop is left
CollectionTerminates ==
    /\ [](phase = "scan" =>
             /\ gc.objIndex <= Len(gc.dst)
             /\ gc.scanned = gc.objIndex - pre.base
             /\ Len(gc.dst) - pre.base <= Len(pre.data))
    /\ (phase = "scan") ~> Quiet

\* C9 witness: the cursor has reached the end of a destination that holds two
\* objects pointing at each other, after two turns of the loop
CollectionTerminatesSeen ==
    /\ phase = "scan"
    /\ gc.objIndex = Len(gc.dst) /\ gc.scanned = 2
    /\ At(gc.dst, 0).edges[1].ix = 1
    /\ At(gc.dst, 1).edges[1].ix = 0

\* C10: each of the k allocations that directly follow an ensure(k) that
\* returned starts no collection, moves and reclaims nothing, and leaves every
\* index, Root and Weak as it was
EnsureCoversAllocs ==
    /\ [][\A r \in Regions : (ensured[r] > 0 /\ AllocBegin(r)) =>
              /\ phase' = "alloc_push"
              /\ UNCHANGED <<region, wcell, rcell, drops, gc>>]_vars
    /\ [][(phase = "alloc_push" /\ phase' = "idle") =>
              /\ UNCHANGED <<wcell, rcell, drops>>
              /\ \A r \in Regions :
                    /\ Len(region'[r].data) >= Len(region[r].data)
                    /\ SubSeq(region'[r].data, 1, Len(region[r].data))
                          = region[r].data]_vars

\* C10 witness: after ensure(2) on a store that held an object, the first of
\* the two allocations has been made and the second is still covered
EnsureCoversAllocsSeen ==
    /\ phase = "idle" /\ me # NoMe
    /\ ensured[me.r] = 1
    /\ Len(region[me.r].data) = 2

\* the state the factory of alloc is called in
AtFactory == phase = "alloc_push"

\* C11: alloc calls its factory after any collection that the lack of
\* capacity caused is over and before the new spot is appended: the Region the
\* factory sees has room for the new spot, holds Present spots only and not
\* the new object, every Index a held Root or Weak reads there resolves to
\* its object, and what follows up to the return of the handle only appends
\* the new spot, so these indices hold for the store the object is put in
FactoryAfterCollection ==
    /\ [](AtFactory =>
            LET d == region[op.r].data IN
            /\ gc = NoGc
            /\ Len(d) < region[op.r].cap
            /\ \A n \in Offsets(d) : At(d, n).tag = "Present"
            /\ nextId \notin PresentIds(d)
            /\ \A i \in Ids :
                  /\ rcell[i].roots > 0 =>
                        /\ RootTryGet(i, op.r).ok
                        /\ RootTryGet(i, op.r).id = i
                  /\ (wcell[i].weaks > 0 /\ WeakIx(i) # NoneIx) =>
                        /\ WeakTryGet(i, op.r).ok
                        /\ WeakTryGet(i, op.r).id = i)
    /\ [][AtFactory =>
            LET d == region[op.r].data
                e == region'[op.r].data
            IN /\ Len(e) = Len(d) + 1
               /\ SubSeq(e, 1, Len(d)) = d
               /\ At(e, Len(d)).tag = "Present"
               /\ At(e, Len(d)).id = nextId
               /\ \A f \in Fields :
                     At(e, Len(d)).edges[f] \in FieldChoices(op.r)
               /\ <<region'[op.r].nonce, region'[op.r].generation>>
                     = RegionStamp(op.r)
               /\ wcell' = wcell
               /\ rcell' = rcell
               /\ me'.ix = IxNew(Len(d), RegionStamp(op.r))]_vars

\* C11 witness: the factory is called after a collection that alloc itself
\* caused and that gave the held Root of a kept object a new Index
FactoryAfterCollectionSeen ==
    /\ AtFactory
    /\ pre # NoPre /\ pre.op = "alloc"
    /\ \E i \in pre.rootIds :
          /\ rcell[i].roots > 0
          /\ debug /\ RootIx(i).generation = region[op.r].generation
          /\ region[op.r].generation > 0

\* a gc_into has just returned and nothing has been done since
IntoDone == Collected /\ pre.op = "gc_into" /\ pre.src # pre.into

\* C12: after src.gc_into(other) every held Root of src, and every held Weak
\* whose target a live Root of src reached, resolves through other to the
\* object it designated, and every field of a moved object that designated an
\* object designates that object's slot in other
GcIntoPreservesHandles ==
    IntoDone =>
        /\ \A i \in PreReachIds :
              /\ Cardinality(SlotsOf(Post, i)) = 1
              /\ rcell[i].roots > 0 =>
                    /\ RootTryGet(i, pre.into).ok
                    /\ RootTryGet(i, pre.into).id = i
              /\ wcell[i].weaks > 0 =>
                    /\ WeakTryGet(i, pre.into).ok
                    /\ WeakTryGet(i, pre.into).id = i
        /\ \A n \in PreReach : \A f \in Fields :
              LET old == At(pre.data, n).edges[f]
                  new == At(Post, Slot(Post, At(pre.data, n).id)).edges[f]
              IN IF old = NoneIx THEN new = NoneIx
                 ELSE /\ IxTryGet(new, pre.into).ok
                      /\ IxTryGet(new, pre.into).id = At(pre.data, old.ix).id

\* C12 witness: a gc_into moved, to another offset, an object that a Weak is
\* held for and that only a field of a rooted object led to
GcIntoPreservesHandlesSeen ==
    /\ IntoDone
    /\ \E i \in PreReachIds :
          /\ i \notin pre.rootIds
          /\ wcell[i].weaks > 0
          /\ Slot(pre.data, i) # Slot(Post, i)
    /\ \E j \in pre.rootIds : rcell[j].roots > 0

\* a collection of one Region onto a new store of its own has just returned
SelfCollected == Collected /\ pre.src = pre.into

\* C13: a Root that gc_into brought into a Region roots there: every later
\* collection of that Region (gc, or the one of ensure or alloc) keeps every
\* object reachable from an object such a Root is held for, and the Root
\* reads the object's new index
TransferredRootsKeepRooting ==
    SelfCollected =>
        \A i \in moved \cap pre.rootIds :
            /\ \A n \in ReachFrom(pre.data, {Slot(pre.data, i)}) :
                  Cardinality(SlotsOf(Post, At(pre.data, n).id)) = 1
            /\ RootIx(i) = IxNew(Slot(Post, i), RegionStamp(pre.into))
            /\ RootTryGet(i, pre.into).ok
            /\ RootTryGet(i, pre.into).id = i

\* C13 witness: a collection of the destination, after a gc_into, moved an
\* object that came with a Root still held
TransferredRootsKeepRootingSeen ==
    /\ SelfCollected
    /\ \E i \in moved \cap pre.rootIds :
          /\ rcell[i].roots > 0
          /\ SlotsOf(Post, i) # {}
          /\ Slot(pre.data, i) # Slot(Post, i)

\* the second of two gc() calls on one Region with nothing in between has
\* just returned
GcTwice == Collected /\ pre.op = "gc" /\ pre.after = "gc"

\* C14: a gc() that directly follows a gc() of the same Region leaves the
\* store as it found it: the same length and, offset by offset, the same
\* object with fields that designate the same offsets
GcIdempotent ==
    GcTwice =>
        /\ Len(Post) = Len(pre.data)
        /\ \A n \in Offsets(pre.data) :
              /\ At(pre.data, n).tag = "Present"
              /\ At(Post, n).tag = "Present"
              /\ At(Post, n).id = At(pre.data, n).id
              /\ \A f \in Fields :
                    At(Post, n).edges[f].ix = At(pre.data, n).edges[f].ix

\* C14 witness: the second gc() ran on a store of two objects, one of them
\* kept only through a field of the other
GcIdempotentSeen ==
    /\ GcTwice
    /\ Len(Post) = MaxAllocs
    /\ PreReachIds # pre.rootIds

\* C15: after a collection the store holds as many objects as were reachable
\* from the live Roots, after the ones it held before if it was not new; an
\* alloc then adds the one it allocates; a collection with no live Root, and
\* so gc() on an empty Region or after one allocation never rooted, leaves
\* the Region empty
LenIsReachable ==
    /\ [](Collected =>
            /\ Len(Post) = pre.base + Cardinality(PreReachIds)
            /\ pre.rootIds = {} => Len(Post) = pre.base
            /\ pre.src = pre.into => pre.base = 0)
    /\ [][(AtFactory /\ pre # NoPre) =>
            Len(region'[op.r].data) = Cardinality(PreReachIds) + 1]_vars

\* C15 witness: a collection kept one object and reclaimed another
LenIsReachableSeen ==
    /\ Collected
    /\ Len(Post) > 0
    /\ Len(Post) < Len(pre.data)

\* the entries of region r's root set made for object i, and the live ones
RootSetEntries(r, i) ==
    {k \in DOMAIN region[r].roots : region[r].roots[k].id = i}

LiveRootSetEntries(r, i) ==
    {k \in RootSetEntries(r, i) : RootEntryAlive(region[r].roots[k])}

\* C16 as stated: however often root() is called on one allocation handle,
\* the root set gets one entry for it
OneRootSetEntryPerHandle ==
    \A r \in Regions : \A i \in Ids : Cardinality(RootSetEntries(r, i)) <= 1

\* C16, amended: a root() or a clone made while a Root of the object is held
\* gives a share of that Root's anchor and leaves the root set alone; a
\* root() made while none is held makes a new anchor and adds one entry for
\* it; so the Roots held for an object always share one anchor, which has
\* exactly one entry in the root set
RootsShareAnchor ==
    /\ [](Quiet => \A i \in Ids :
            Cardinality(UNION {LiveRootSetEntries(r, i) : r \in Regions})
                = IF rcell[i].roots > 0 THEN 1 ELSE 0)
    /\ [][\A i \in Ids : rcell'[i].roots > rcell[i].roots =>
            IF rcell[i].roots > 0
            THEN /\ rcell'[i].inc = rcell[i].inc
                 /\ rcell'[i].ix = rcell[i].ix
                 /\ rcell'[i].roots = rcell[i].roots + 1
                 /\ region' = region
            ELSE /\ rcell'[i].inc # rcell[i].inc
                 /\ rcell'[i].roots = 1
                 /\ region' = [region EXCEPT ![me.r].roots =
                                 Append(@, [id |-> i, inc |-> rcell'[i].inc])]]_vars

\* C16 witness: two Roots of the object of an allocation handle are held, and
\* the root set has one entry for the object
RootsShareAnchorSeen ==
    /\ me # NoMe
    /\ rcell[MeId].roots = 2
    /\ Cardinality(RootSetEntries(me.r, MeId)) = 1

\* a try_get or try_get_mut has just returned
Looked == got.fn \in {"try_get", "try_get_mut"}

\* what the spot the Ix of the last lookup designates gives: the value of a
\* Present spot, Indeterminable for a BrokenHeart or an offset out of range
BySpot ==
    LET d == region[got.r].data IN
    IF InRange(d, got.ix.ix) /\ At(d, got.ix.ix).tag = "Present"
    THEN got.res = "Ok" /\ got.id = At(d, got.ix.ix).id
    ELSE got.res = "Indeterminable"

\* C17 as stated: try_get and try_get_mut answer by the spot alone
TryGetBySpot == Looked => BySpot

\* the Ix of the last lookup has the nonce and the generation of its Region
Stamped ==
    /\ got.ix.nonce = region[got.r].nonce
    /\ got.ix.generation = region[got.r].generation

\* C17, amended: try_get and try_get_mut answer by the spot unless the build
\* is a debug-arena build and the Ix does not carry the Region's nonce and
\* generation, and then they give what check_region gives, whatever the spot
\* is; no lookup changes the Region or an anchor
TryGetChecksThenSpot ==
    /\ [](Looked =>
            /\ (~debug \/ Stamped) => BySpot
            /\ (debug /\ ~Stamped) =>
                  /\ got.res \in {"IncorrectRegion", "EntryExpired",
                                  "Indeterminable"}
                  /\ got.res = "IncorrectRegion"
                        <=> got.ix.nonce # region[got.r].nonce
                  /\ got.res = "EntryExpired"
                        <=> /\ got.ix.nonce = region[got.r].nonce
                            /\ got.ix.generation < region[got.r].generation)
    /\ [][got' # got =>
            /\ region' = region
            /\ wcell' = wcell
            /\ rcell' = rcell]_vars

\* C17 witness: try_get with an Ix that passes check_region came upon a
\* BrokenHeart
TryGetChecksThenSpotSeen ==
    /\ Looked
    /\ debug /\ Stamped
    /\ InRange(region[got.r].data, got.ix.ix)
    /\ At(region[got.r].data, got.ix.ix).tag = "BrokenHeart"
    /\ got.res = "Indeterminable"

\* a check_region has just returned
Checked == got.fn = "check_region"

\* C18 as stated: in the debug-arena build check_region gives IncorrectRegion
\* for another nonce, else EntryExpired for a generation behind the Region's,
\* UnexpectedInternalState for one ahead of it, and Ok when both agree
CheckRegionUnexpectedState ==
    (Checked /\ debug) =>
        got.res =
            IF got.ix.nonce # region[got.r].nonce THEN "IncorrectRegion"
            ELSE IF got.ix.generation < region[got.r].generation
                 THEN "EntryExpired"
            ELSE IF got.ix.generation > region[got.r].generation
                 THEN "UnexpectedInternalState"
            ELSE "Ok"

\* C18 witness: check_region was called with the Region's nonce and a
\* generation ahead of the Region's
CheckRegionUnexpectedStateSeen ==
    /\ Checked /\ debug
    /\ got.ix.nonce = region[got.r].nonce
    /\ got.ix.generation > region[got.r].generation
    /\ got.res = "Indeterminable"

\* C19 as stated, for gc_into: from the call of src.gc_into(other) to its
\* return the generation of other stays as it is
GcIntoKeepsGeneration ==
    [][(debug /\ op.name = "gc_into") =>
          region'[op.into].generation = region[op.into].generation]_vars

\* the step that ends a collection of region r onto a new store of its own
EndsCollectionOf(r) ==
    /\ phase = "scan"
    /\ gc.kind \in {"gc", "ensure"}
    /\ gc.src = r
    /\ gc' = NoGc

\* the region object i is stored in
Home(i) == {r \in Regions : region[r].alive /\ SlotsOf(region[r].data, i) # {}}

\* C19, amended: in the debug-arena build the generation of a Region goes up
\* by one with each of its collections (gc, a collecting ensure or alloc, and
\* the ensure a gc_into makes on its destination when that one lacks room)
\* and changes with nothing else: not with an ensure or an alloc that finds
\* room, not with the move of a gc_into.  So after a collection of a Region
\* try_get with any Ix of its old store gives EntryExpired, and every Ix read
\* from a handle or a field since the last collection passes check_region
GenerationCountsCollections ==
    /\ [][debug => \A r \in Regions :
            region'[r].generation =
                IF EndsCollectionOf(r) THEN region[r].generation + 1
                ELSE region[r].generation]_vars
    /\ []((debug /\ SelfCollected) =>
            \A n \in Offsets(pre.data) :
                LET t == IxTryGet(IxNew(n, pre.stamp), pre.into)
                IN ~t.ok /\ t.err = "EntryExpired")
    /\ []((debug /\ Quiet) =>
            /\ me # NoMe => CheckRegion(me.ix, me.r) = "Ok"
            /\ \A i \in Ids :
                  /\ rcell[i].roots > 0 =>
                        \E r \in Home(i) : CheckRegion(RootIx(i), r) = "Ok"
                  /\ WeakIx(i) # NoneIx =>
                        \E r \in Home(i) : CheckRegion(WeakIx(i), r) = "Ok"
            /\ \A r \in Regions : \A n \in Offsets(region[r].data) :
                  \A f \in Fields :
                     LET ix == At(region[r].data, n).edges[f]
                     IN ix # NoneIx => CheckRegion(ix, r) = "Ok")

\* C19 witness: a Region that a gc_into has moved objects into has been
\* collected twice and holds an object whose Root is held
GenerationCountsCollectionsSeen ==
    /\ debug /\ SelfCollected
    /\ region[pre.into].generation = MaxGen
    /\ moved # {}
    /\ \E i \in pre.rootIds : rcell[i].roots > 0 /\ Home(i) = {pre.into}

\* ix carries the nonce and the generation region r has now
CarriesStampOf(ix, r) ==
    /\ ix.nonce = region[r].nonce
    /\ ix.generation = region[r].generation
    /\ CheckRegion(ix, r) = "Ok"

\* C20: in the debug-arena build, after src.gc_into(other) the Index of
\* every held Root and Weak of a moved object, and every Index in a field of a
\* moved object, carries other's nonce and other's generation, and
\* check_region with other gives Ok for it
GcIntoRestamps ==
    (debug /\ IntoDone) =>
        \A i \in PreReachIds :
            /\ rcell[i].roots > 0 => CarriesStampOf(RootIx(i), pre.into)
            /\ wcell[i].weaks > 0 => CarriesStampOf(WeakIx(i), pre.into)
            /\ \A f \in Fields :
                  LET ix == At(Post, Slot(Post, i)).edges[f]
                  IN ix # NoneIx => CarriesStampOf(ix, pre.into)

\* C20 witness: a gc_into between Regions of different generations moved an
\* object with a held Root, an object with a held Weak and a field that
\* designates an object
GcIntoRestampsSeen ==
    /\ debug /\ IntoDone
    /\ pre.stamp[2] # region[pre.into].generation
    /\ \E i \in PreReachIds : rcell[i].roots > 0
    /\ \E i \in PreReachIds : wcell[i].weaks > 0
    /\ \E i \in PreReachIds : \E f \in Fields :
          At(Post, Slot(Post, i)).edges[f] # NoneIx


\* ------------------------------------------------------------- C25
\* the spots of store d that are BrokenHearts
BrokenHearts(d) == {n \in Offsets(d) : At(d, n).tag = "BrokenHeart"}

\* a collection is under way: prim_gc_to has been entered and has not returned
Collecting == phase \in {"scan", "panicked", "ub"}

\* C25: between public operations every slot of every Region is Present; a
\* BrokenHeart is found only in the store a running collection moves objects
\* out of, never in its destination and never in another Region
SlotsPresentBetweenOperations ==
    /\ ~Collecting =>
          \A r \in Regions : region[r].alive => BrokenHearts(region[r].data) = {}
    /\ Collecting =>
          /\ BrokenHearts(gc.dst) = {}
          /\ \A r \in Regions \ {gc.src} : BrokenHearts(region[r].data) = {}

\* a collection that left BrokenHearts behind it in its source has returned,
\* and the Region holds objects
SlotsPresentBetweenOperationsSeen ==
    /\ Collected /\ phase = "idle"
    /\ Len(pre.data) > Len(Post)
    /\ Len(Post) > 0
    /\ \E i \in Ids : drops[i] = 0 /\ SlotsOf(Post, i) # {} /\ SlotsOf(pre.data, i) # {}
                       /\ Slot(Post, i) # Slot(pre.data, i)


\* ------------------------------------------------------------- C26
\* index ix designates the slot object i is in, in the Region that holds i
Designates(ix, i) ==
    \E r \in Home(i) :
        /\ InRange(region[r].data, ix.ix)
        /\ At(region[r].data, ix.ix).tag = "Present"
        /\ At(region[r].data, ix.ix).id = i
        /\ debug => <<ix.nonce, ix.generation>> = RegionStamp(r)

\* the user holds a Weak of object i and the object is alive
WeakLive(i) == wcell[i].held /\ wcell[i].weaks > 0

\* C26: between operations the Index in the anchor of each live Root and of
\* each Weak that has not expired is in range and designates the slot that
\* holds the handle's object, so a Root and a Weak of one object report the
\* same Index
AnchorsDesignateTheirObject ==
    Quiet =>
       \A i \in Ids :
          /\ rcell[i].roots > 0 => Designates(RootIx(i), i)
          /\ WeakLive(i) => Designates(WeakIx(i), i)
          /\ (rcell[i].roots > 0 /\ WeakLive(i)) => RootIx(i) = WeakIx(i)

\* an object with both a Root and a Weak has been moved by a collection to
\* another offset than the one it was allocated at
AnchorsDesignateTheirObjectSeen ==
    /\ Collected /\ phase = "idle"
    /\ \E i \in Ids :
          /\ rcell[i].roots > 0 /\ WeakLive(i)
          /\ SlotsOf(pre.data, i) # {} /\ SlotsOf(Post, i) # {}
          /\ Slot(pre.data, i) # Slot(Post, i)
          /\ RootIx(i).ix = Slot(Post, i)


\* ------------------------------------------------------------- C21
\* the scan loop is about to traverse the object under its cursor
Scanning == phase = "scan" /\ gc.objIndex < Len(gc.dst)

\* the object the scan loop's cursor is on
Cursor == At(gc.dst, gc.objIndex)

\* the fields of the object under the cursor that hold an Index whose offset
\* the source store does not have
OutOfRange ==
    {f \in DOMAIN Cursor.edges :
        /\ Cursor.edges[f] # NoneIx
        /\ ~InRange(region[gc.src].data, Cursor.edges[f].ix)}

\* C21: when the traversal of a live object yields an Index whose offset is
\* outside the source store the collection panics: the step that traverses
\* the object ends in the panic and leaves that field as it was, and no
\* collection returns from a store in which a reachable object had such a field
InvalidIndexPanics ==
    /\ [][(Scanning /\ OutOfRange # {}) =>
              /\ phase' = "panicked"
              /\ \A f \in OutOfRange :
                    At(gc'.dst, gc.objIndex).edges[f] = Cursor.edges[f]]_vars
    /\ [](Collected =>
              \A n \in PreReach : \A f \in DOMAIN At(pre.data, n).edges :
                  \/ At(pre.data, n).edges[f] = NoneIx
                  \/ InRange(pre.data, At(pre.data, n).edges[f].ix))

\* in the plain build a collection has panicked on an object whose second
\* field is out of range, after it had forwarded the first
InvalidIndexPanicsSeen ==
    /\ phase = "panicked" /\ ~debug
    /\ gc.objIndex < Len(gc.dst)
    /\ 2 \in OutOfRange
    /\ At(pre.data, 0).id = Cursor.id
    /\ Cursor.edges[1] # NoneIx
    /\ Cursor.edges[1] # At(pre.data, 0).edges[1]


\* ------------------------------------------------------------- C22
\* Index ix is not of the generation under collection: it is of another
\* Region or of an older generation of this one
Stale(ix) ==
    ix # NoneIx /\ (ix.nonce # gc.oldGen[1] \/ ix.generation < gc.oldGen[2])

\* the fields of the object under the cursor that hold a stale Index
StaleFields == {f \in DOMAIN Cursor.edges : Stale(Cursor.edges[f])}

\* C22: in the debug-arena build the collector panics when the traversal
\* yields an Index of another Region or of an older generation, leaving the
\* field as it was, and when the traversal yields one Index location twice;
\* no gc, ensure or gc_into returns after such a traversal
DiagnosticTraversalPanics ==
    /\ [][(debug /\ Scanning /\ StaleFields # {}) =>
              /\ phase' = "panicked"
              /\ \A f \in StaleFields :
                    At(gc'.dst, gc.objIndex).edges[f] = Cursor.edges[f]]_vars
    /\ [][(debug /\ Scanning /\ twice /\ Cursor.edges[1] # NoneIx) =>
              phase' = "panicked"]_vars
    /\ [](debug /\ Collected =>
              \A n \in PreReach :
                  /\ \A f \in DOMAIN At(pre.data, n).edges :
                        LET ix == At(pre.data, n).edges[f] IN
                        ix # NoneIx =>
                            <<ix.nonce, ix.generation>> = pre.stamp
                  /\ twice => At(pre.data, n).edges[1] = NoneIx)

\* a gc_into of the debug-arena build has panicked on the second yield of a
\* field it had forwarded at the first
DiagnosticTraversalPanicsSeen ==
    /\ phase = "panicked" /\ debug /\ twice
    /\ gc.kind = "into"
    /\ gc.objIndex < Len(gc.dst)
    /\ <<Cursor.edges[1].nonce, Cursor.edges[1].generation>> = gc.newGen


\* ------------------------------------------------------------- C23
\* the objects a panicked collection has taken out of the source and written
\* above the length of the destination: the traversal that panicked had
\* forwarded them, and dst.set_len comes after the traversal
Uninstalled ==
    {At(pre.data, n).id :
        n \in {m \in Offsets(region[gc.src].data) :
                 /\ At(region[gc.src].data, m).tag = "BrokenHeart"
                 /\ At(region[gc.src].data, m).fwd.ix >= Len(gc.dst)}}

\* C23 as stated: after a traversal has panicked in a collection and the
\* stores are torn down, every value the source held has been dropped
NoLeakOnPanic ==
    phase = "unwound" => \A i \in PresentIds(pre.data) : drops[i] = 1

\* C23: when a traversal panics in the middle of a collection no value is
\* dropped twice and the values dropped are those installed in the
\* destination and those still in the source; a value the panicking
\* traversal had already forwarded is in neither and is never dropped
PanicLeaksOnlyUninstalled ==
    /\ [](phase = "unwound" => \A i \in Ids : drops[i] <= 1)
    /\ [][(phase = "panicked" /\ phase' = "unwound") =>
              \A i \in PresentIds(pre.data) :
                  drops'[i] = IF i \in Uninstalled THEN 0 ELSE 1]_vars
    /\ [][(Scanning /\ phase' = "panicked") =>
              /\ Len(gc'.dst) = Len(gc.dst)
              /\ gc'.objIndex = gc.objIndex]_vars

\* a collection has panicked and been unwound: one value was dropped with its
\* store and one, forwarded by the traversal that panicked, was not
PanicLeaksOnlyUninstalledSeen ==
    /\ phase = "unwound"
    /\ \E i \in PresentIds(pre.data) : drops[i] = 0
    /\ \E i \in PresentIds(pre.data) : drops[i] = 1


\* ------------------------------------------------------------- C27
\* the number of places object i is in while a collection runs: its copies in
\* the destination and its original in the source
Places(i) ==
    Cardinality(SlotsOf(gc.dst, i)) + Cardinality(SlotsOf(region[gc.src].data, i))

\* the Index the object at offset m of the pre-collection store has after
\* the collection
NewIx(m) == IxNew(Slot(Post, At(pre.data, m).id), RegionStamp(pre.into))

\* C27: a collection copies each live object of the source exactly once,
\* however many Roots and fields designate it: while the collection runs
\* every object is either in the source or once in the destination and the
\* BrokenHeart left for it holds the Index of that copy, and after it every
\* field of a survivor that designated the object, two fields of one object
\* included, holds that one Index
CopiedExactlyOnce ==
    /\ phase = "scan" =>
          /\ \A i \in PresentIds(pre.data) : Places(i) = 1
          /\ \A n \in BrokenHearts(region[gc.src].data) :
                LET to == At(region[gc.src].data, n).fwd IN
                /\ to = IxNew(to.ix, gc.newGen)
                /\ InRange(gc.dst, to.ix)
                /\ ~twice => At(gc.dst, to.ix).id = At(pre.data, n).id
    /\ (Collected /\ phase = "idle" /\ ~twice) =>
          \A n \in PreReach :
             /\ Cardinality(SlotsOf(Post, At(pre.data, n).id)) = 1
             /\ \A f \in DOMAIN At(pre.data, n).edges :
                   LET old == At(pre.data, n).edges[f]
                       new == At(Post, Slot(Post, At(pre.data, n).id)).edges[f]
                   IN IF old = NoneIx THEN new = NoneIx
                      ELSE /\ old.ix \in PreReach
                           /\ new = NewIx(old.ix)

\* a collection has returned from a store in which both fields of a rooted
\* object designated another rooted object: the three now hold one Index
CopiedExactlyOnceSeen ==
    /\ Collected /\ phase = "idle" /\ ~twice
    /\ \E n \in PreReach, m \in PreReach :
          /\ n # m
          /\ At(pre.data, m).id \in pre.rootIds
          /\ At(pre.data, n).id \in pre.rootIds
          /\ Len(At(pre.data, n).edges) = 2
          /\ At(pre.data, n).edges[1].ix = m
          /\ At(pre.data, n).edges[2].ix = m
          /\ LET o == At(Post, Slot(Post, At(pre.data, n).id)) IN
             /\ o.edges[1] = o.edges[2]
             /\ o.edges[1] = RootIx(At(pre.data, m).id)
             /\ o.edges[1].ix # m


\* ------------------------------------------------------------- C28
\* C28: the destination of a collection is never written at or above the
\* capacity it was given at the start, in gc, in a collecting ensure and in
\* gc_into: no write of push_spot falls outside it, the objects still in the
\* source always fit above its length, and its capacity stays what
\* dst.reserve made it
DestinationNeverReallocates ==
    /\ [](phase # "ub")
    /\ [](phase \in {"scan", "panicked"} => Len(gc.dst) <= gc.cap)
    /\ [](phase = "scan" =>
            Len(gc.dst) + Cardinality(PresentIds(region[gc.src].data)) <= gc.cap)
    /\ [][(phase = "scan" /\ phase' \in {"scan", "panicked"}) =>
              gc'.cap = gc.cap]_vars

\* a collection has filled its destination up to the capacity reserved, the
\* last objects written by the scan
DestinationNeverReallocatesSeen ==
    /\ phase = "scan"
    /\ Len(gc.dst) = gc.cap
    /\ gc.scanned > 0
    /\ Len(gc.dst) > pre.base + Cardinality(pre.rootIds)


\* ------------------------------------------------------------- C29
\* C29: at every point of a collection, the point where a traversal has
\* panicked included, every slot below the destination's length holds a
\* Present entry, no value is in the destination twice, and no value is in
\* both the source and the destination; so the unwinding of a panic drops no
\* value twice
StoresOwnDisjointValues ==
    /\ Collecting =>
          /\ BrokenHearts(gc.dst) = {}
          /\ \A i \in Ids : Cardinality(SlotsOf(gc.dst, i)) <= 1
          /\ PresentIds(gc.dst) \cap PresentIds(region[gc.src].data) = {}
    /\ phase = "unwound" => \A i \in Ids : drops[i] <= 1

\* a traversal has panicked with values in the destination, values in the
\* source and a value it had forwarded itself
StoresOwnDisjointValuesSeen ==
    /\ phase = "panicked"
    /\ PresentIds(gc.dst) # {}
    /\ PresentIds(region[gc.src].data) # {}
    /\ Uninstalled # {}


\* ------------------------------------------------------------- C30
\* the objects of store d, in the order of their slots
IdsOf(d) == [k \in 1..Len(d) |-> d[k].id]

\* the offsets found so far, after the fields f.. of the object at offset n
\* of store d have been yielded: a target not found before goes to the end
RECURSIVE Discover(_, _, _, _)
Discover(d, order, n, f) ==
    IF f > Len(At(d, n).edges) THEN order
    ELSE LET t == At(d, n).edges[f] IN
         IF t = NoneIx \/ ~InRange(d, t.ix)
               \/ \E k \in 1..Len(order) : order[k] = t.ix
         THEN Discover(d, order, n, f + 1)
         ELSE Discover(d, Append(order, t.ix), n, f + 1)

\* breadth-first order over store d from the offsets in order, the k-th on
RECURSIVE Bfs(_, _, _)
Bfs(d, order, k) ==
    IF k > Len(order) THEN order
    ELSE Bfs(d, Discover(d, order, order[k], 1), k + 1)

\* the pre-collection offsets of the first objects of the collected store,
\* one for each rooted object
RootsFirst ==
    [k \in 1..Cardinality(pre.rootIds) |-> Slot(pre.data, Post[k].id)]

\* C30: after gc the survivors fill the store from index 0: first the
\* objects of the live Roots in the order of the root set, then the other
\* reachable objects in the order the scan's traversals yield them, breadth
\* first
SurvivorsInCheneyOrder ==
    /\ [][(phase = "idle" /\ phase' = "scan" /\ op'.name = "gc") =>
              IdsOf(gc'.dst) =
                 [k \in 1..Len(TakeValidRoots(region[op'.r].roots)) |->
                     TakeValidRoots(region[op'.r].roots)[k].id]]_vars
    /\ [][(phase = "scan" /\ gc.kind = "gc") =>
              \A k \in 1..Len(gc.dst) :
                 /\ phase' = "scan" => gc'.dst[k].id = gc.dst[k].id
                 /\ phase' = "idle" => region'[gc.src].data[k].id = gc.dst[k].id]_vars
    /\ []((Collected /\ phase = "idle" /\ pre.op = "gc" /\ ~twice) =>
              /\ Len(Post) >= Cardinality(pre.rootIds)
              /\ BrokenHearts(Post) = {}
              /\ LET order == Bfs(pre.data, RootsFirst, 1) IN
                 IdsOf(Post) = [k \in 1..Len(order) |-> At(pre.data, order[k]).id])

\* gc has returned from a store whose second object was rooted first and
\* designated the third, and whose first object was rooted second: the
\* store now holds the second, the first and the third, in this order
SurvivorsInCheneyOrderSeen ==
    /\ Collected /\ phase = "idle" /\ pre.op = "gc" /\ ~twice
    /\ IdsOf(pre.data) = <<1, 2, 3>>
    /\ At(pre.data, 1).edges[1].ix = 2
    /\ IdsOf(Post) = <<2, 1, 3>>


\* ------------------------------------------------------------- C24
\* C24 as stated: whatever the sequence of calls, the packed-header entry
\* and the safe-header entry return the same
EntriesAgree == ent.on => ent.res.safe = ent.res.packed

\* weak() has been called on an entry whose first Weak is still held: the
\* safe header returned a second Weak of the same anchor, the packed header
\* panicked
EntriesDisagreeSeen ==
    /\ ent.on /\ ent.last = "weak"
    /\ Len(ent.hs) = 2
    /\ ent.hs[1].safe = ent.hs[2].safe /\ ent.hs[1].safe # 0
    /\ ent.res.safe.ok
    /\ ent.res.packed = Panicked

\* ------------------------------------------------------------- C31
\* the arguments ensure is called with
EnsureArgs == (0..MaxEnsure) \cup {UsizeMax}

\* an ensure(k) on region r that collects has just returned
EnsureReturns == phase = "scan" /\ op.name = "ensure" /\ phase' = "idle"

\* C31 as stated: ensure(additional) collects if and only if capacity() <
\* len() + additional; an ensure that does not collect changes no store, root
\* set, Index or anchor; one that collects leaves a capacity of at least
\* old_len + max(old_len, additional); so capacity() - len() >= additional on
\* every return
EnsureContract ==
    /\ [][\A r \in Regions : \A k \in EnsureArgs :
            Ensure(r, k) =>
                LET len == Len(region[r].data) IN
                IF region[r].cap < len + k
                THEN /\ phase' = "scan"
                     /\ gc'.kind = "ensure" /\ gc'.src = r
                     /\ gc'.cap >= len + Max(len, k)
                ELSE /\ UNCHANGED <<region, wcell, rcell, drops, gc, phase>>
                     /\ region[r].cap - len >= k]_vars
    /\ [][EnsureReturns =>
            /\ region'[op.r].cap
                  >= Len(pre.data) + Max(Len(pre.data), op.additional)
            /\ region'[op.r].cap - Len(region'[op.r].data)
                  >= op.additional]_vars

\* an ensure(usize::MAX) on a Region that holds an object has returned and
\* the Region has no room for that many allocations
EnsureReturnedShort ==
    /\ phase = "idle"
    /\ \E r \in Regions :
          /\ ensured[r] = UsizeMax
          /\ Len(region[r].data) >= 1
          /\ region[r].cap - Len(region[r].data) < ensured[r]

\* ------------------------------------------------------------- C32
\* C32: alloc appends exactly one Present spot that has no anchor: the store
\* the factory saw is kept and one spot with the factory's value is added
\* after it, no anchor and no root set is touched, the handle's Index is
\* len() - 1 and resolves to that value for as long as the handle is held;
\* and an alloc that finds room for one more spot starts no collection, so
\* every object keeps its index and contents over the whole call
AllocAppendsOneSpot ==
    /\ [][(AtFactory /\ phase' = "idle") =>
            LET d == region[op.r].data
                e == region'[op.r].data
            IN /\ Len(e) = Len(d) + 1
               /\ SubSeq(e, 1, Len(d)) = d
               /\ At(e, Len(d)).tag = "Present"
               /\ At(e, Len(d)).id = nextId
               /\ wcell'[nextId] = NoWCell /\ rcell'[nextId] = NoRCell
               /\ UNCHANGED <<wcell, rcell, drops>>
               /\ region'[op.r].roots = region[op.r].roots
               /\ \A q \in Regions \ {op.r} : region'[q] = region[q]
               /\ me'.r = op.r
               /\ me'.ix.ix = Len(e) - 1
               /\ IxTryGet(me.ix, me.r)'.ok
               /\ IxTryGet(me.ix, me.r)'.id = nextId
               /\ IxTryGet(me.ix, me.r)'.edges = At(e, Len(d)).edges]_vars
    /\ [][\A r \in Regions :
            (AllocBegin(r) /\ region[r].cap >= Len(region[r].data) + 1) =>
                /\ phase' = "alloc_push"
                /\ UNCHANGED <<region, wcell, rcell, drops, gc>>]_vars
    /\ [](phase = "idle" /\ me # NoMe =>
            /\ me.ix.ix = Len(region[me.r].data) - 1
            /\ IxTryGet(me.ix, me.r).ok
            /\ IxTryGet(me.ix, me.r).id = nextId - 1)

\* C32 witness: an alloc that needed no collection has returned: the object
\* that was there keeps offset 0, where its Root still reads it, and the new
\* one sits at offset 1 with no anchor
AllocAppendsOneSpotSeen ==
    /\ phase = "idle" /\ me # NoMe
    /\ ensured[me.r] >= 1
    /\ me.ix.ix = 1
    /\ wcell[MeId] = NoWCell /\ rcell[MeId] = NoRCell
    /\ \E i \in Ids \ {MeId} :
          /\ rcell[i].roots > 0
          /\ RootTryGet(i, me.r).ok
          /\ RootIx(i).ix = 0

\* ------------------------------------------------------------- C33
\* the objects of store d keep their anchors and are not dropped in this step
HandlesKept(d) ==
    \A i \in PresentIds(d) :
        wcell'[i] = wcell[i] /\ rcell'[i] = rcell[i] /\ drops'[i] = drops[i]

\* the prim_gc_to of a gc_into is running
Merging == phase = "scan" /\ gc.kind = "into"

\* C33: gc_into appends to the destination.  Where other has room for the
\* source's length its ensure changes nothing; from there to the return every
\* step leaves other's slots, in place and with their contents, below what is
\* appended, and leaves their anchors and other's root-set entries alone; on
\* return other has grown by the number of source objects reachable from the
\* source's live Roots, the Roots and Weaks of the objects it held resolve at
\* the offsets they had, and every other source object has been dropped once
\* and its Weak is expired
GcIntoAppends ==
    /\ [][\A s \in Regions : \A o \in Regions :
            (/\ GcIntoEnsure(s, o)
             /\ region[o].cap >= Len(region[o].data) + Len(region[s].data)) =>
                /\ phase' = "into"
                /\ UNCHANGED <<region, wcell, rcell, drops, gc>>]_vars
    /\ [][(phase = "into" /\ phase' # "into") =>
            LET d == region[op.into].data IN
            /\ region'[op.into] = region[op.into]
            /\ gc'.cap = region[op.into].cap
            /\ Len(gc'.dst) >= Len(d)
            /\ SubSeq(gc'.dst, 1, Len(d)) = d
            /\ pre'.base = Len(d)
            /\ HandlesKept(d)]_vars
    /\ [][(Merging /\ phase' = "scan") =>
            LET d == region[op.into].data IN
            /\ region'[op.into] = region[op.into]
            /\ gc'.cap = gc.cap
            /\ SubSeq(gc'.dst, 1, Len(d)) = d
            /\ HandlesKept(d)]_vars
    /\ [][(Merging /\ phase' = "idle") =>
            LET d == region[op.into].data
                rs == region[op.into].roots
            IN /\ SubSeq(region'[op.into].data, 1, Len(d)) = d
               /\ SubSeq(region'[op.into].roots, 1, Len(rs)) = rs
               /\ region'[op.into].cap = region[op.into].cap
               /\ region'[op.into].nonce = region[op.into].nonce
               /\ region'[op.into].generation = region[op.into].generation
               /\ HandlesKept(d)]_vars
    /\ [](IntoDone =>
            /\ Len(Post) = pre.base + Cardinality(PreReachIds)
            /\ \A n \in 0..(pre.base - 1) :
                  /\ At(Post, n).tag = "Present"
                  /\ rcell[At(Post, n).id].roots > 0 =>
                        /\ RootIx(At(Post, n).id).ix = n
                        /\ RootTryGet(At(Post, n).id, pre.into).ok
                        /\ RootTryGet(At(Post, n).id, pre.into).id = At(Post, n).id
                  /\ wcell[At(Post, n).id].weaks > 0 =>
                        /\ WeakIx(At(Post, n).id).ix = n
                        /\ WeakTryGet(At(Post, n).id, pre.into).ok
                        /\ WeakTryGet(At(Post, n).id, pre.into).id = At(Post, n).id
            /\ \A i \in PresentIds(pre.data) \ PreReachIds :
                  /\ drops[i] = 1
                  /\ SlotsOf(Post, i) = {}
                  /\ WeakIx(i) = NoneIx
                  /\ WeakTryGet(i, pre.into) = Expired)

\* C33 witness: a gc_into onto a Region with room has returned: the object
\* other held, not rooted, is still at offset 0 where its Weak resolves; one
\* of the source's two objects was appended after it, the other was dropped
\* and its Weak is expired
GcIntoAppendsSeen ==
    /\ IntoDone
    /\ pre.base = 1 /\ Len(Post) = 2
    /\ rcell[At(Post, 0).id].roots = 0
    /\ wcell[At(Post, 0).id].weaks > 0
    /\ WeakTryGet(At(Post, 0).id, pre.into).ok
    /\ \E i \in PresentIds(pre.data) \ PreReachIds :
          wcell[i].weaks > 0 /\ drops[i] = 1

\* ------------------------------------------------------------- C34
\* a Root is held for the anchor the root-set entry e was made for
AnchorHeld(e) == rcell[e.id].inc = e.inc /\ rcell[e.id].roots > 0

\* the root set of region r has an entry whose anchor has lost all its Roots
DeadEntries(r) ==
    {k \in DOMAIN region[r].roots : ~AnchorHeld(region[r].roots[k])}

\* C34 as stated: after every collection, a gc_into among them, the root set
\* of the resulting Region has no entry whose anchor has lost all its Roots
NoDeadRootEntries == Collected => DeadEntries(pre.into) = {}

\* C34, amended: prim_gc_to leaves in the root set of the Region it collects
\* exactly the entries whose anchor a Root is held for, in their order; so the
\* Region a gc, an ensure or an alloc has collected has no dead entry on
\* return; gc_into adds the source's entries, all live, after the entries
\* other has, which it leaves as they are, dead ones included
RootSetPruned ==
    /\ [][(phase # "scan" /\ phase' = "scan") =>
            region'[gc'.src].roots
                = SelectSeq(region[gc'.src].roots, AnchorHeld)]_vars
    /\ [](phase = "scan" => DeadEntries(gc.src) = {})
    /\ [](Collected /\ pre.src = pre.into => DeadEntries(pre.into) = {})
    /\ [][(Merging /\ phase' = "idle") =>
            /\ DeadEntries(op.r) = {}
            /\ region'[op.into].roots
                  = region[op.into].roots \o region[op.r].roots]_vars

\* C34 witness: a gc_into has returned and the root set of the Region it
\* appended to holds a dead entry of an object that was there, before the
\* live entry of an object that was brought over
RootSetPrunedSeen ==
    /\ IntoDone
    /\ LET rs == region[pre.into].roots IN
       /\ Len(rs) = 2
       /\ ~AnchorHeld(rs[1]) /\ rs[1].id \notin moved
       /\ AnchorHeld(rs[2]) /\ rs[2].id \in moved

\* ------------------------------------------------------------- C35
\* the objects this step of a collection forwards: Present in the source
\* before it, a BrokenHeart there after it
ForwardedNow ==
    PresentIds(region[gc'.src].data) \ PresentIds(region'[gc'.src].data)

\* C35: when a collection forwards an object, its Entry gives up its share of
\* the anchor if and only if no Weak observes the anchor then: an anchor a
\* Weak observes is kept, with its Weaks, and reads the object's new index;
\* an anchor no Weak observes is let go; an Entry without an anchor gets
\* none; and no step of a collection touches the anchor of an object it does
\* not forward
AnchorClearedIffUnobserved ==
    [][phase' = "scan" =>
         \A i \in Ids :
            IF i \in ForwardedNow
            THEN /\ Cardinality(SlotsOf(gc'.dst, i)) = 1
                 /\ IF wcell[i].held /\ wcell[i].weaks > 0
                    THEN /\ wcell'[i].held
                         /\ wcell'[i].weaks = wcell[i].weaks
                         /\ wcell'[i].ix = IxNew(Slot(gc'.dst, i), gc'.newGen)
                    ELSE IF wcell[i].held
                    THEN ~wcell'[i].held /\ wcell'[i].ix = NoneIx
                    ELSE wcell'[i] = wcell[i]
            ELSE wcell'[i] = wcell[i]]_vars

\* C35 witness: a collection has forwarded two objects: one whose Weak is
\* held is at a new offset, which its anchor reads, and one whose Entry has
\* no anchor
AnchorClearedIffUnobservedSeen ==
    /\ phase = "scan"
    /\ \E i \in PresentIds(gc.dst) \cap PreReachIds :
          /\ wcell[i].held /\ wcell[i].weaks > 0
          /\ wcell[i].ix = IxNew(Slot(gc.dst, i), gc.newGen)
          /\ Slot(gc.dst, i) # Slot(pre.data, i)
          /\ \E j \in (PresentIds(gc.dst) \cap PreReachIds) \ {i} : ~wcell[j].held

\* ------------------------------------------------------------- C36
\* the entries of region r's root set whose anchor a Root is held for
LiveEntries(r) ==
    {k \in DOMAIN region[r].roots : AnchorHeld(region[r].roots[k])}

\* the Index in the anchor of the k-th entry of region r's root set
EntryIx(r, k) == rcell[region[r].roots[k].id].ix

\* prim_gc_to has just run its root loop
RootsForwarded == phase # "scan" /\ phase' = "scan"

\* C36: in every state no two live entries of a root set designate the same
\* slot; so the root loop of a collection finds a Present spot for every live
\* entry, and what it puts into the destination is one Present spot for each
\* of them, never a BrokenHeart
OneLiveRootEntryPerObject ==
    /\ [](\A r \in Regions : \A k \in LiveEntries(r) : \A m \in LiveEntries(r) :
            k # m => EntryIx(r, k) # EntryIx(r, m))
    /\ [][RootsForwarded =>
            LET s == gc'.src IN
            /\ \A k \in LiveEntries(s) :
                  /\ InRange(region[s].data, EntryIx(s, k).ix)
                  /\ At(region[s].data, EntryIx(s, k).ix).tag = "Present"
                  /\ At(region[s].data, EntryIx(s, k).ix).id = region[s].roots[k].id
            /\ Len(gc'.dst) = pre'.base + Cardinality(LiveEntries(s))
            /\ \A n \in pre'.base..(Len(gc'.dst) - 1) :
                  /\ At(gc'.dst, n).tag = "Present"
                  /\ \E k \in LiveEntries(s) :
                        At(gc'.dst, n).id = region[s].roots[k].id]_vars
    /\ [](phase = "scan" => BrokenHearts(gc.dst) = {})

\* C36 witness: the root loop of a gc() has run over a root set that held the
\* entry of one object and two entries of another, rooted again after its
\* first Root was dropped: the destination holds the two objects
OneLiveRootEntryPerObjectSeen ==
    /\ phase = "scan" /\ gc.kind = "gc" /\ gc.scanned = 0
    /\ Len(gc.dst) = 2 /\ BrokenHearts(gc.dst) = {}
    /\ Len(region[gc.src].roots) = 2
    /\ \E k \in LiveEntries(gc.src) : region[gc.src].roots[k].inc = 2

\* ------------------------------------------------------------- C37
\* a step of a gc() that directly follows a gc() of the same Region
Rerun == phase' = "scan" /\ pre'.op = "gc" /\ pre'.after = "gc"

\* the Index b is the Index a, nonce and generation included
SameIndex(a, b) == a = b

\* the Index b has the offset and the nonce of the Index a, and in a
\* debug-arena build the generation after a's
SamePlace(a, b) ==
    /\ b.ix = a.ix
    /\ b.nonce = a.nonce
    /\ b.generation = IF debug THEN a.generation + 1 ELSE a.generation

\* a step of the second of two gc() runs gives every object it forwards the
\* slot it had, and its Root's anchor, its Weak's anchor and every field the
\* scan has passed an Index that is, in the sense of Same, the one they held
RerunKeeps(Same(_, _)) ==
    Rerun =>
        /\ \A i \in ForwardedNow :
              /\ Slot(gc'.dst, i) = Slot(region[gc'.src].data, i)
              /\ rcell[i].roots > 0 => Same(rcell[i].ix, rcell'[i].ix)
              /\ (wcell[i].held /\ wcell[i].weaks > 0) =>
                    Same(wcell[i].ix, wcell'[i].ix)
        /\ phase = "scan" =>
              \A f \in DOMAIN At(gc.dst, gc.objIndex).edges :
                 LET old == At(gc.dst, gc.objIndex).edges[f]
                     new == At(gc'.dst, gc.objIndex).edges[f]
                 IN IF old = NoneIx THEN new = NoneIx ELSE Same(old, new)

\* the store the second of two gc() runs has left is, slot by slot, the one
\* it found, and the Indices of Roots, Weaks and fields are, in the sense of
\* Same, the ones of the slots the objects had
TwiceKeeps(Same(_, _)) ==
    GcTwice =>
        /\ Len(Post) = Len(pre.data)
        /\ \A n \in Offsets(Post) :
              /\ At(Post, n).tag = "Present"
              /\ At(Post, n).id = At(pre.data, n).id
              /\ rcell[At(Post, n).id].roots > 0 =>
                    Same(IxNew(n, pre.stamp), RootIx(At(Post, n).id))
              /\ wcell[At(Post, n).id].weaks > 0 =>
                    Same(IxNew(n, pre.stamp), WeakIx(At(Post, n).id))
              /\ \A f \in DOMAIN At(Post, n).edges :
                    LET old == At(pre.data, n).edges[f]
                        new == At(Post, n).edges[f]
                    IN IF old = NoneIx THEN new = NoneIx
                       ELSE Same(old, new)

\* C37 as stated: a gc() that directly follows a gc() leaves every
\* Root::ix, Weak::ix and stored Index unchanged
IndicesUnchangedByRerun ==
    /\ [][RerunKeeps(SameIndex)]_vars
    /\ [](TwiceKeeps(SameIndex))

\* C37, amended: a gc() that directly follows a gc() leaves every object in
\* its slot, so every Root::ix, Weak::ix and stored Index keeps its offset;
\* in a plain build the Index is the same value, in a debug-arena build it
\* carries the next generation
LayoutFixedPoint ==
    /\ [][RerunKeeps(SamePlace)]_vars
    /\ [](TwiceKeeps(SamePlace))

\* C37 witness: in a debug-arena build the second of two gc() runs has
\* returned on a store of two objects, one rooted and designating the other,
\* whose Weak is held: the Weak reads the offset it read, with the new
\* generation
LayoutFixedPointSeen ==
    /\ GcTwice /\ debug
    /\ Len(Post) = 2
    /\ rcell[At(Post, 0).id].roots > 0
    /\ At(Post, 0).edges[1].ix = 1
    /\ wcell[At(Post, 1).id].weaks > 0
    /\ WeakIx(At(Post, 1).id) = IxNew(1, <<pre.stamp[1], pre.stamp[2] + 1>>)

====
